---- MODULE Spec2Model ----
(***************************************************************************)
(* A model of the aoc20 binary: the command-line dispatcher and the scoped *)
(* timer of src/main.rs, the run entry points of the nineteen days, the    *)
(* file helpers of src/util.rs, the number theory of src/day13.rs, the      *)
(* RangeSet of src/day16.rs, the interpreter and basic block analysis of   *)
(* src/day8.rs, the rule parser of src/day19.rs, the memory game of        *)
(* src/day15.rs, find_invalid of src/day9.rs, the seat layout of           *)
(* src/day11.rs and the address decoder of src/day14.rs.                   *)
(*                                                                         *)
(* The output log records WHICH line is written (an answer, a timing line, *)
(* a panic message), in order, not the number printed in it.               *)
(***************************************************************************)
EXTENDS Integers, Sequences, FiniteSets, TLC

VARIABLES
    argv,      \* env::args().skip(1): the command and the rest
    file,      \* what the file system answers for the input path
    content,   \* the bytes of the input file, one element per character
    pc,        \* position of the single thread of control
    day,       \* the day whose run is executing (0: none)
    rest,      \* the args slice handed to run
    ip,        \* position inside the running day's body
    timers,    \* live Timer values, innermost last
    created,   \* how many Timer values have been constructed
    log,       \* what was written, opened and computed so far, in order
    result,    \* value leaving the entry point: none, ok, err or panic
    err,       \* the error value when result = "err"
    called,    \* the run calls made so far
    \* util::split_bytes_lines, driven as an iterator
    buffer,    \* the bytes handed to split_bytes_lines
    remainder, \* Split: the part of the buffer not yet split
    finished,  \* Split: the last piece has been handed out
    flag,      \* TakeWhile: the predicate has failed once
    yielded,   \* the slices the iterator has yielded so far
    \* day13::egcd and day13::modinv
    call,      \* the function called: egcd or modinv
    arg_a,     \* its first argument a
    arg_b,     \* its second argument: egcd's b, modinv's modulus m
    loop,      \* egcd's locals r_p, r, s_p, s, t_p, t
    epc,       \* loop, ret (egcd has returned), done, abort (assert_eq failed)
    xyd,       \* egcd's return value (x, y, d)
    inv,       \* modinv's return value: "None" or the inverse
    \* day13::chinese_remainder_theorem
    crt_a,     \* the residues a
    crt_n,     \* the moduli n
    crt_N,     \* N, the product of the moduli
    crt_i,     \* the pair of the zip that the map takes next
    crt_sum,   \* the sum of the terms so far
    crt_pc,    \* start, iter, done or abort (a panic)
    crt_out,   \* the Option returned
    \* day16::RangeSet::from_iter
    rs_build,  \* overflow checks of the build: on (debug) or off (release)
    rs_input,  \* the ranges of the iterator `unsorted`, in its order
    rs_sorted, \* what is left of the peekable iterator `sorted`
    rs_range,  \* start and end of the range being grown
    rs_merged, \* the vector `merged`
    rs_pc,     \* start, outer, inner, done or abort (a panic)
    \* day8: eval, the basic block functions and find_repair
    d8_call,   \* the function under call: eval, blocks or find_repair
    d8_instrs, \* the program, instruction 0 first
    d8_nop,    \* include_nop, as given to leaders
    d8_pc,     \* the position inside the call; done, or abort (a panic)
    d8_st,     \* eval's locals ip, acc, visited_instrs, and the steps made
    d8_ret,    \* eval's return value
    d8_leaders,   \* leader_indices
    d8_blocks,    \* basic_blocks
    d8_map,       \* basic_block_map
    d8_graph,     \* basic_block_graph: its node count and edges
    d8_repair,    \* find_repair's return value
    \* day19::Rules::parse
    r19_defs,  \* the rules the text defines: index and body, line by line
    r19_v2,    \* the flag v2: false for parse_v1, true for parse_v2
    r19_text,  \* the text s, one element per character
    r19_lines, \* the lines of s not yet parsed
    r19_rules, \* the vector `rules`
    r19_pc,    \* start, lines, done or abort (a panic)
    \* day15::Game
    g15_start, \* the starting numbers given to Game::new
    g15_game,  \* the Game: round, prev_num_spoken, prev_round_spoken
    g15_said,  \* the numbers spoken: the starting ones, then step's returns
    g15_until, \* the round given to step_until_round (0: no such call)
    g15_ret,   \* what step_until_round returned
    g15_pc,    \* ready, until (inside step_until_round) or done
    \* day9::find_invalid
    f9_nums,     \* the argument nums, the whole input list
    f9_idx,      \* how many numbers after the preamble the loop has taken
    f9_preamble, \* the VecDeque preamble
    f9_set,      \* the HashSet preamble_set
    f9_ret,      \* the Option<(usize, u64)> returned
    f9_pc,       \* start, loop, done or abort (a panic)
    \* day11::Layout
    l11_lines,  \* input.lines(), the text given to Layout::from_str
    l11_layout, \* the Layout: occupied and floor_mask
    l11_prev,   \* occupied as it was before the last step
    l11_pc,     \* start, ready or abort (a panic)
    \* day14::Memory::apply_action_v2 and mask_permutations
    m14_actions, \* the actions that part2 folds over
    m14_i,       \* how many of them have been applied
    m14_memory,  \* the Memory: mem, one_mask, zero_mask, floating_mask
    m14_perms    \* what mask_permutations yielded to the last SetMem

cliVars == <<argv, file, content, pc, day, rest, ip, timers, created, log,
             result, err, called>>
utilVars == <<buffer, remainder, finished, flag, yielded>>
day13Vars == <<call, arg_a, arg_b, loop, epc, xyd, inv>>
crtVars == <<crt_a, crt_n, crt_N, crt_i, crt_sum, crt_pc, crt_out>>
rsVars == <<rs_build, rs_input, rs_sorted, rs_range, rs_merged, rs_pc>>
day8Vars == <<d8_call, d8_instrs, d8_nop, d8_pc, d8_st, d8_ret, d8_leaders,
              d8_blocks, d8_map, d8_graph, d8_repair>>
day19Vars == <<r19_defs, r19_v2, r19_text, r19_lines, r19_rules, r19_pc>>
day15Vars == <<g15_start, g15_game, g15_said, g15_until, g15_ret, g15_pc>>
day9Vars == <<f9_nums, f9_idx, f9_preamble, f9_set, f9_ret, f9_pc>>
day11Vars == <<l11_lines, l11_layout, l11_prev, l11_pc>>
day14Vars == <<m14_actions, m14_i, m14_memory, m14_perms>>
pureVars == <<crtVars, rsVars, day8Vars, day19Vars, day15Vars, day9Vars,
              day11Vars, day14Vars>>
vars == <<cliVars, utilVars, day13Vars, pureVars>>

\* what a call of one function leaves alone
notCrt == <<cliVars, utilVars, day13Vars, rsVars, day8Vars, day19Vars,
            day15Vars, day9Vars, day11Vars, day14Vars>>
notRs == <<cliVars, utilVars, day13Vars, crtVars, day8Vars, day19Vars,
           day15Vars, day9Vars, day11Vars, day14Vars>>
notDay8 == <<cliVars, utilVars, day13Vars, crtVars, rsVars, day19Vars,
             day15Vars, day9Vars, day11Vars, day14Vars>>
notDay19 == <<cliVars, utilVars, day13Vars, crtVars, rsVars, day8Vars,
              day15Vars, day9Vars, day11Vars, day14Vars>>
notDay15 == <<cliVars, utilVars, day13Vars, crtVars, rsVars, day8Vars,
              day19Vars, day9Vars, day11Vars, day14Vars>>
notDay9 == <<cliVars, utilVars, day13Vars, crtVars, rsVars, day8Vars,
             day19Vars, day15Vars, day11Vars, day14Vars>>
notDay11 == <<cliVars, utilVars, day13Vars, crtVars, rsVars, day8Vars,
              day19Vars, day15Vars, day9Vars, day14Vars>>
notDay14 == <<cliVars, utilVars, day13Vars, crtVars, rsVars, day8Vars,
              day19Vars, day15Vars, day9Vars, day11Vars>>

\* the variables of the functions that are not running
UtilIdle ==
    /\ buffer = << >>
    /\ remainder = << >>
    /\ finished = TRUE
    /\ flag = TRUE
    /\ yielded = << >>

Day13Idle ==
    /\ call = "none"
    /\ arg_a = 0
    /\ arg_b = 0
    /\ loop = << >>
    /\ epc = "idle"
    /\ xyd = << >>
    /\ inv = [some |-> FALSE, val |-> 0]

CrtIdle ==
    /\ crt_a = << >>
    /\ crt_n = << >>
    /\ crt_N = 0
    /\ crt_i = 0
    /\ crt_sum = 0
    /\ crt_pc = "idle"
    /\ crt_out = [some |-> FALSE, val |-> 0]

RsIdle ==
    /\ rs_build = "none"
    /\ rs_input = << >>
    /\ rs_sorted = << >>
    /\ rs_range = << >>
    /\ rs_merged = << >>
    /\ rs_pc = "idle"

Day8Idle ==
    /\ d8_call = "none"
    /\ d8_instrs = << >>
    /\ d8_nop = FALSE
    /\ d8_pc = "idle"
    /\ d8_st = << >>
    /\ d8_ret = << >>
    /\ d8_leaders = << >>
    /\ d8_blocks = << >>
    /\ d8_map = << >>
    /\ d8_graph = << >>
    /\ d8_repair = [some |-> FALSE, val |-> 0]

Day19Idle ==
    /\ r19_defs = << >>
    /\ r19_v2 = FALSE
    /\ r19_text = << >>
    /\ r19_lines = << >>
    /\ r19_rules = << >>
    /\ r19_pc = "idle"

Day15Idle ==
    /\ g15_start = << >>
    /\ g15_game = << >>
    /\ g15_said = << >>
    /\ g15_until = 0
    /\ g15_ret = [some |-> FALSE, val |-> 0]
    /\ g15_pc = "idle"

Day9Idle ==
    /\ f9_nums = << >>
    /\ f9_idx = 0
    /\ f9_preamble = << >>
    /\ f9_set = {}
    /\ f9_ret = << >>
    /\ f9_pc = "idle"

Day11Idle ==
    /\ l11_lines = << >>
    /\ l11_layout = << >>
    /\ l11_prev = << >>
    /\ l11_pc = "idle"

Day14Idle ==
    /\ m14_actions = << >>
    /\ m14_i = 0
    /\ m14_memory = << >>
    /\ m14_perms = << >>

PureIdle ==
    /\ CrtIdle
    /\ RsIdle
    /\ Day8Idle
    /\ Day19Idle
    /\ Day15Idle
    /\ Day9Idle
    /\ Day11Idle
    /\ Day14Idle

(***************************************************************************)
(* Bounds                                                                  *)
(***************************************************************************)
MaxExtraArgs == 1     \* arguments after the input path
MaxLines == 2         \* lines (day 4: records) of a sampled input file
MaxLineLen == 2       \* characters of a generated line
MaxBufLen == 4        \* bytes of a buffer given to split_bytes_lines
MaxAbs == 6           \* egcd and modinv are tried on -MaxAbs..MaxAbs
MaxCrtLen == 3        \* pairs given to chinese_remainder_theorem
MaxModulus == 4       \* its moduli are drawn from 0..MaxModulus
MaxResidue == 1       \* its residues are drawn from -1..MaxResidue
MaxRanges == 3        \* ranges given to RangeSet::from_iter
MaxLow == 2           \* their bounds are drawn from 0..MaxLow and u16::MAX
MaxProg == 4          \* instructions of a day 8 program
MaxOff == 2           \* jmp and nop offsets are drawn from -1..MaxOff
MaxRules == 3         \* rules defined by a day 19 rule text
MaxStart == 3         \* starting numbers of a day 15 game
MaxNum == 2           \* they are drawn from 0..MaxNum
MaxRound == 8         \* rounds a day 15 game is played for
MaxFollow == 3        \* numbers after the preamble of a day 9 input
MaxRows == 2          \* lines of a day 11 seat layout
MaxCols == 3          \* characters of each of its lines
MaxLowBit == 2        \* day 14 masks use the bits 0..MaxLowBit and bit 35

(***************************************************************************)
(* Small helpers                                                           *)
(***************************************************************************)
Front(s) == SubSeq(s, 1, Len(s) - 1)
Last(s) == s[Len(s)]
Range(s) == {s[i] : i \in 1..Len(s)}

NoErr == [context |-> "", arg |-> ""]

Ev(kind, label, id, scope) ==
    [kind |-> kind, label |-> label, id |-> id, scope |-> scope]

Scope == {timers[i].id : i \in 1..Len(timers)}

(***************************************************************************)
(* src/main.rs: Timer and the time! macro                                  *)
(***************************************************************************)
\* a Timer without its Drop impl: nothing is written
Timer_drop_missing(t, lg) == lg

\* Timer::drop writes its one line to the error stream.
Timer_drop(t, lg) == Append(lg, Ev("timing", t.label, t.id, {}))

\* time!(label, block): `let _timer = Timer::new(..)` keeps the timer alive
\* until the block's scope exits.
time(label, st) ==
    [timers |-> Append(st.timers, [id |-> st.created + 1, label |-> label]),
     created |-> st.created + 1,
     log |-> st.log]

(***************************************************************************)
(* src/main.rs: the dispatcher                                             *)
(***************************************************************************)
DayName == <<"day1", "day2", "day3", "day4", "day5", "day6", "day7", "day8",
             "day9", "day10", "day11", "day12", "day13", "day14", "day15",
             "day16", "day17", "day18", "day19">>

\* the days for which a solver unit (dayN.rs with a pub fn run) exists
Days == 1..Len(DayName)

\* the arms of `match command.as_str()`; 0 is the `_` arm
main_match(command) ==
    CASE command = "day1" -> 1
      [] command = "day2" -> 2
      [] command = "day3" -> 3
      [] command = "day4" -> 4
      [] command = "day5" -> 5
      [] command = "day6" -> 6
      [] command = "day7" -> 7
      [] command = "day8" -> 8
      [] command = "day9" -> 9
      [] command = "day10" -> 10
      [] command = "day11" -> 11
      [] command = "day12" -> 12
      [] command = "day13" -> 13
      [] command = "day14" -> 14
      [] OTHER -> 0

\* a `_` arm that falls through to success
unrecognized_ignored(command) == [result |-> "ok", err |-> NoErr]

\* the value of the `_` arm
unrecognized(command) ==
    [result |-> "err",
     err |-> [context |-> "unrecognized command", arg |-> command]]

(***************************************************************************)
(* The bodies of the days' run functions, after the input file is read:    *)
(* work that may fail, answers printed, timed blocks entered and left.     *)
(***************************************************************************)
W(name, fails, ctx) ==
    [op |-> "work", label |-> name, fails |-> fails, context |-> ctx]
E(label) == [op |-> "enter", label |-> label, fails |-> {}, context |-> ""]
X == [op |-> "exit", label |-> "", fails |-> {}, context |-> ""]
A(label) == [op |-> "answer", label |-> label, fails |-> {}, context |-> ""]

day1_run ==
    << W("parse", {"panic"}, ""),
       E("two_sum(&inputs, YEAR).unwrap()"), W("two_sum", {"panic"}, ""), X,
       A("two_sum"),
       E("three_sum(&inputs, YEAR).unwrap()"), W("three_sum", {"panic"}, ""), X,
       A("three_sum") >>

day2_run ==
    << W("from_utf8", {"err"}, "File not valid utf8"),
       W("entries", {"panic"}, ""),
       A("num_valid_v1"), A("num_valid_v2") >>

day3_run ==
    << W("from_lines", {"panic"}, ""),
       A("count"), A("count"), A("count"), A("count"), A("count"),
       A("product") >>

day4_run ==
    << W("passports", {"err"}, "Failed to parse passport"),
       A("valid_count_v1"), A("valid_count_v2") >>

day5_run ==
    << W("max_seat_id", {"err"}, "No seats"), A("max_seat_id"),
       W("my_id", {"err", "panic"}, "Failed to find my seat id"), A("my_id") >>

day6_run ==
    << W("groups", {"panic"}, ""),
       A("union_yes_counts"), A("intersect_yes_counts") >>

day7_run ==
    << W("from_raw_rules", {"panic"}, ""),
       W("count_containers_of", {"panic"}, ""), A("count_containers_of"),
       W("count_contained_of", {"panic"}, ""), A("count_contained_of") >>

day8_run ==
    << W("parse_instructions", {"panic"}, ""),
       W("expect_err", {"panic"}, ""), A("eval"),
       W("find_repair", {}, ""), A("find_repair"),
       W("repair", {"panic"}, ""),
       W("eval", {}, ""), A("eval"),
       W("expect", {"panic"}, "") >>

day9_run ==
    << W("parse", {"panic"}, ""),
       W("find_invalid", {"panic"}, ""), A("find_invalid"),
       W("find_contiguous_ksum", {"panic"}, ""), A("ksum") >>

day10_run ==
    << W("parse", {"panic"}, ""),
       W("diffs_distribution", {"panic"}, ""), A("diffs_distr"), A("product"),
       W("count_paths", {"panic"}, ""), A("count_paths") >>

day11_run ==
    << E("part1(&input)"), W("part1", {"panic"}, ""),
       A("iter"), A("count_occupied"), X,
       E("part2(&input)"), W("part2", {"panic"}, ""),
       A("iter"), A("count_occupied"), X >>

day12_run ==
    << W("parse", {"panic"}, ""),
       W("part1", {"panic"}, ""), A("ship"), A("manhattan_distance"),
       W("part2", {"panic"}, ""), A("ship"), A("manhattan_distance") >>

day13_run ==
    << E("part1(&input)"), W("parse", {"panic"}, ""), A("earliest_timestamp"),
       W("min", {"panic"}, ""), A("delay_until_arrival"), X,
       E("part2(&input)"), W("chinese_remainder_theorem", {"panic"}, ""),
       A("x"), X >>

day14_run ==
    << E("parse_all_actions(&input)"), W("parse_all_actions", {"panic"}, ""), X,
       E("part1(&actions)"), W("part1", {"panic"}, ""),
       A("sum"), A("len"), X,
       E("part2(&actions)"), W("part2", {"panic"}, ""),
       A("sum"), A("len"), X >>

day15_run ==
    << W("parse", {"panic"}, ""),
       W("step_until_round", {"panic"}, ""), A("step_until_round(2020)"),
       W("step_until_round", {"panic"}, ""), A("step_until_round(30_000_000)") >>

day16_run ==
    << W("Data::parse", {"err"}, "Failed to parse data"),
       E("part1(&data)"), W("part1", {"panic"}, ""), A("error_rate"), X,
       E("part2(&data)"), W("part2", {"panic"}, ""),
       A("my_departure_fields"), X >>

day17_run ==
    << W("parse_input", {"panic"}, ""),
       E("cubes 1:"), W("step", {"panic"}, ""), A("num_active"), X,
       E("cubes 2:"), W("step", {"panic"}, ""), A("num_active"), X >>

day18_run ==
    << W("eval_str_v1", {"panic"}, ""), A("sum_v1"),
       W("eval_str_v2", {"panic"}, ""), A("sum_v2") >>

\* run_regexes holds two timed blocks of its own inside the caller's
run_regexes ==
    << E("build_regexes(&mut regexes, rules, 0)"),
       W("build_regexes", {"panic"}, ""), X,
       W("base_regex", {"panic"}, ""),
       E("matching_lines.count()"), W("count", {}, ""), X,
       A("num_matching") >>

day19_run ==
    << W("collect_tuple", {"panic"}, ""), W("parse_v1", {"panic"}, ""),
       E("run_regexes(&rules_v1.rules, inputs)") >> \o run_regexes \o << X,
       W("parse_v2", {"panic"}, ""),
       E("run_regexes(&rules_v2.rules, inputs)") >> \o run_regexes \o << X >>

Body(d) ==
    << day1_run, day2_run, day3_run, day4_run, day5_run, day6_run, day7_run,
       day8_run, day9_run, day10_run, day11_run, day12_run, day13_run,
       day14_run, day15_run, day16_run, day17_run, day18_run, day19_run >>[d]

(***************************************************************************)
(* src/util.rs and std::fs: reading the input file                         *)
(***************************************************************************)
FileStates == {"ok", "absent", "unreadable"}

\* util::read_file_bytes: File::open, then read_to_end, each with a context
read_file_bytes(f) ==
    IF f = "absent" THEN [result |-> "err",
                          err |-> [context |-> "Failed to open file", arg |-> ""]]
    ELSE IF f = "unreadable"
         THEN [result |-> "err",
               err |-> [context |-> "Failed to read file", arg |-> ""]]
         ELSE [result |-> "ok", err |-> NoErr]

\* fs::read_to_string(args[0])? with the context left out
read_to_string_bare(f) ==
    IF f # "ok" THEN [result |-> "err", err |-> NoErr]
    ELSE [result |-> "ok", err |-> NoErr]

\* fs::read_to_string(args[0]).context("Failed to read file")
read_to_string(f) ==
    IF f # "ok" THEN [result |-> "err",
                      err |-> [context |-> "Failed to read file", arg |-> ""]]
    ELSE [result |-> "ok", err |-> NoErr]

\* the first statement of every run
read_input(d, f) ==
    IF d \in {1, 2, 3} THEN read_file_bytes(f) ELSE read_to_string(f)

(***************************************************************************)
(* src/util.rs: split_bytes_lines, and std's str::lines / str::split       *)
(***************************************************************************)
NEWLINE == "\n"

\* index of the first element of s equal to c, 0 when there is none
IndexOf(s, c) ==
    IF \E i \in 1..Len(s) : s[i] = c
    THEN CHOOSE i \in 1..Len(s) : s[i] = c /\ \A j \in 1..(i - 1) : s[j] # c
    ELSE 0

\* <[u8]>::split(|byte| *byte == NEWLINE): the pieces between the newlines,
\* the empty ones included
RECURSIVE split(_)
split(bytes) ==
    LET i == IndexOf(bytes, NEWLINE) IN
    IF i = 0 THEN << bytes >>
    ELSE << SubSeq(bytes, 1, i - 1) >> \o split(SubSeq(bytes, i + 1, Len(bytes)))

\* Iterator::take_while(|piece| !piece.is_empty())
RECURSIVE take_while_nonempty(_)
take_while_nonempty(pieces) ==
    IF pieces = << >> \/ Head(pieces) = << >> THEN << >>
    ELSE << Head(pieces) >> \o take_while_nonempty(Tail(pieces))

split_bytes_lines(bytes) == take_while_nonempty(split(bytes))

\* str::lines: the pieces between the newlines, without the empty piece a
\* final newline leaves, each without a trailing carriage return
lines(input) ==
    LET pieces == split(input)
        kept == IF Last(pieces) = << >> THEN Front(pieces) ELSE pieces
        strip(l) == IF l # << >> /\ Last(l) = "\r" THEN Front(l) ELSE l
    IN [i \in 1..Len(kept) |-> strip(kept[i])]

\* str::split("\n\n"): non-overlapping matches, left to right
RECURSIVE split_blank(_)
split_blank(input) ==
    LET hits == {i \in 1..(Len(input) - 1) :
                    input[i] = NEWLINE /\ input[i + 1] = NEWLINE} IN
    IF hits = {} THEN << input >>
    ELSE LET i == CHOOSE h \in hits : \A k \in hits : h <= k IN
         << SubSeq(input, 1, i - 1) >>
            \o split_blank(SubSeq(input, i + 2, Len(input)))

(***************************************************************************)
(* src/day1.rs                                                             *)
(***************************************************************************)
YEAR == 2020

Digits == <<"0", "1", "2", "3", "4", "5", "6", "7", "8", "9">>
IsDigit(c) == c \in Range(Digits)
DigitVal(c) == (CHOOSE i \in 1..Len(Digits) : Digits[i] = c) - 1

RECURSIVE DecVal(_)
DecVal(s) == IF s = << >> THEN 0 ELSE DecVal(Front(s)) * 10 + DigitVal(Last(s))

\* u32::MAX, digit by digit
U32MaxDigits == <<"4", "2", "9", "4", "9", "6", "7", "2", "9", "5">>

RECURSIVE StripZeros(_)
StripZeros(s) ==
    IF s # << >> /\ Head(s) = "0" THEN StripZeros(Tail(s)) ELSE s

\* the decimal number s is at most the decimal number m of the same length
RECURSIVE DecLeq(_, _)
DecLeq(s, m) ==
    \/ s = << >>
    \/ DigitVal(Head(s)) < DigitVal(Head(m))
    \/ Head(s) = Head(m) /\ DecLeq(Tail(s), Tail(m))

FitsU32(s) ==
    \/ Len(StripZeros(s)) < Len(U32MaxDigits)
    \/ Len(StripZeros(s)) = Len(U32MaxDigits) /\ DecLeq(StripZeros(s), U32MaxDigits)

\* s.parse::<u32>(): a non-empty run of decimal digits (an optional leading
\* plus sign) whose value fits 32 bits
parse_u32(s) ==
    LET body == IF s # << >> /\ Head(s) = "+" THEN Tail(s) ELSE s IN
    IF body # << >> /\ (\A i \in 1..Len(body) : IsDigit(body[i])) /\ FitsU32(body)
    THEN [ok |-> TRUE, val |-> DecVal(body)]
    ELSE [ok |-> FALSE, val |-> 0]

day1_nums(bytes) == [i \in 1..Len(split_bytes_lines(bytes)) |->
                        parse_u32(split_bytes_lines(bytes)[i])]

day1_inputs(bytes) == {day1_nums(bytes)[i].val : i \in 1..Len(day1_nums(bytes))}

\* Some(..) exactly when two members, possibly the same one, add up to sum
two_sum(inputs, sum) ==
    \E input \in inputs : input <= sum /\ (sum - input) \in inputs

three_sum(inputs, sum) ==
    \E a \in inputs : a <= sum /\ two_sum(inputs, sum - a)

day1_work(name, bytes) ==
    CASE name = "parse" ->
           IF \A i \in 1..Len(day1_nums(bytes)) : day1_nums(bytes)[i].ok
           THEN "ok" ELSE "panic"
      [] name = "two_sum" ->
           IF two_sum(day1_inputs(bytes), YEAR) THEN "ok" ELSE "panic"
      [] name = "three_sum" ->
           IF three_sum(day1_inputs(bytes), YEAR) THEN "ok" ELSE "panic"

(***************************************************************************)
(* src/day4.rs                                                             *)
(***************************************************************************)
PassportKeys == {"byr", "iyr", "eyr", "hgt", "hcl", "ecl", "pid", "cid"}

IsWhitespace(c) == c \in {" ", NEWLINE, "\t", "\r"}

\* str::split_ascii_whitespace: the maximal runs of non-whitespace
RECURSIVE split_ascii_whitespace(_)
split_ascii_whitespace(s) ==
    IF s = << >> THEN << >>
    ELSE IF IsWhitespace(Head(s)) THEN split_ascii_whitespace(Tail(s))
    ELSE LET ws == {i \in 1..Len(s) : IsWhitespace(s[i])}
             e == IF ws = {} THEN Len(s) + 1
                  ELSE CHOOSE i \in ws : \A k \in ws : i <= k
         IN << SubSeq(s, 1, e - 1) >>
               \o split_ascii_whitespace(SubSeq(s, e, Len(s)))

\* field.split(':')
RECURSIVE split_colon(_)
split_colon(field) ==
    LET i == IndexOf(field, ":") IN
    IF i = 0 THEN << field >>
    ELSE << SubSeq(field, 1, i - 1) >>
            \o split_colon(SubSeq(field, i + 1, Len(field)))

\* a field check whose `_` arm accepts unknown keys
field_ok_any_key(field) == Len(split_colon(field)) = 2

\* one field of PassportRaw::try_from_str: exactly key:value, key known
field_ok(field) ==
    /\ Len(split_colon(field)) = 2
    /\ Len(split_colon(field)[1]) = 1
    /\ split_colon(field)[1][1] \in PassportKeys

\* PassportRaw::try_from_str(s).is_ok()
PassportRaw_try_from_str(s) ==
    \A i \in 1..Len(split_ascii_whitespace(s)) :
        field_ok(split_ascii_whitespace(s)[i])

day4_work(name, input) ==
    IF \A i \in 1..Len(split_blank(input)) :
           PassportRaw_try_from_str(split_blank(input)[i])
    THEN "ok" ELSE "err"

(***************************************************************************)
(* src/day18.rs                                                            *)
(***************************************************************************)
\* Token: a digit stands for Num(d), "+" Add, "*" Mul, "(" LParen, ")" RParen
IsToken(c) == IsDigit(c) \/ c \in {"+", "*", "(", ")"}

\* tokenize: filter_map keeps the characters that are tokens, `_ => None`
\* drops every other one
tokenize(s) == SelectSeq(s, IsToken)

\* find_matching_lparen, scanning from position p down; 0 is None
RECURSIVE find_lparen_from(_, _, _)
find_lparen_from(tokens, p, depth) ==
    IF p = 0 THEN 0
    ELSE IF tokens[p] = ")" THEN find_lparen_from(tokens, p - 1, depth + 1)
    ELSE IF tokens[p] = "(" /\ depth = 0 THEN p
    ELSE IF tokens[p] = "(" THEN find_lparen_from(tokens, p - 1, depth - 1)
    ELSE find_lparen_from(tokens, p - 1, depth)

find_matching_lparen(tokens) == find_lparen_from(tokens, Len(tokens), 0)

\* the while loop of split_lowest_precedence from position p down;
\* idx = 0 is a lowest_idx of None
RECURSIVE lowest_from(_, _, _, _)
lowest_from(tokens, p, lowest, v2) ==
    IF p = 0 THEN [panic |-> FALSE, idx |-> lowest]
    ELSE IF tokens[p] = "+" THEN
        IF v2 THEN lowest_from(tokens, p - 1, IF lowest = 0 THEN p ELSE lowest, v2)
        ELSE [panic |-> FALSE, idx |-> p]
    ELSE IF tokens[p] = "*" THEN [panic |-> FALSE, idx |-> p]
    ELSE IF tokens[p] = ")" THEN
        LET lparen == find_matching_lparen(SubSeq(tokens, 1, p - 1)) IN
        IF lparen = 0 THEN [panic |-> TRUE, idx |-> 0]
        ELSE lowest_from(tokens, lparen - 1, lowest, v2)
    ELSE IF tokens[p] = "(" THEN [panic |-> TRUE, idx |-> 0]
    ELSE lowest_from(tokens, p - 1, lowest, v2)

split_lowest_precedence(tokens, v2) == lowest_from(tokens, Len(tokens), 0, v2)

RECURSIVE eval18(_, _)
eval18(tokens, v2) ==
    IF Len(tokens) = 1 /\ IsDigit(tokens[1])
    THEN [panic |-> FALSE, val |-> DigitVal(tokens[1])]
    ELSE LET sp == split_lowest_precedence(tokens, v2) IN
         IF sp.panic THEN [panic |-> TRUE, val |-> 0]
         ELSE IF sp.idx # 0 THEN
             LET left == eval18(SubSeq(tokens, 1, sp.idx - 1), v2)
                 right == eval18(SubSeq(tokens, sp.idx + 1, Len(tokens)), v2)
             IN IF left.panic \/ right.panic THEN [panic |-> TRUE, val |-> 0]
                ELSE IF tokens[sp.idx] = "+"
                     THEN [panic |-> FALSE, val |-> left.val + right.val]
                     ELSE [panic |-> FALSE, val |-> left.val * right.val]
         ELSE IF Len(tokens) >= 2 /\ Head(tokens) = "(" /\ Last(tokens) = ")"
              THEN eval18(SubSeq(tokens, 2, Len(tokens) - 1), v2)
              ELSE [panic |-> TRUE, val |-> 0]

eval_str_v1(input) == eval18(tokenize(input), FALSE)
eval_str_v2(input) == eval18(tokenize(input), TRUE)

day18_work(name, input) ==
    IF \E i \in 1..Len(lines(input)) :
           IF name = "eval_str_v1" THEN eval_str_v1(lines(input)[i]).panic
           ELSE eval_str_v2(lines(input)[i]).panic
    THEN "panic" ELSE "ok"

(***************************************************************************)
(* Input files the runs are tried on                                       *)
(***************************************************************************)
SeqsUpTo(S, n) == UNION {[1..k -> S] : k \in 0..n}

RECURSIVE Join(_, _)
Join(ls, sep) ==
    IF ls = << >> THEN << >>
    ELSE IF Len(ls) = 1 THEN ls[1]
    ELSE ls[1] \o sep \o Join(Tail(ls), sep)

\* up to MaxLines pieces joined by sep, with and without a final newline
Files(pieces, sep) ==
    {Join(ls, sep) \o t : ls \in SeqsUpTo(pieces, MaxLines),
                          t \in {<< >>, << NEWLINE >>}}

Day1Lines == {<<"0">>, <<"1", "0", "1", "0">>, <<"x">>, <<"1", "x">>, << >>}

\* day 4: a key or a value is one element of the buffer
Day4Fields == {<<"byr", ":", "v">>, <<"byr">>, <<"zzz", ":", "v">>,
               <<"ecl", ":", "v", ":", "v">>}
Day4Records == {Join(fs, <<" ">>) : fs \in SeqsUpTo(Day4Fields, 2)}

Day18Lines ==
    SeqsUpTo({"2", "+", "x"}, MaxLineLen)
    \cup {<<"(", "2", "*", "3", ")">>, <<"2", " ", "+", " ", "3">>,
          <<"2", "*", "(", "3", "+", "2", ")">>, <<"2", "+", "3", "*", "2">>,
          <<"(", "2">>, <<"2", ")">>, <<"2", "x", "+", "3">>}

Buffers(d) ==
    CASE d = 1 -> Files(Day1Lines, << NEWLINE >>)
      [] d = 4 -> Files(Day4Records, << NEWLINE, NEWLINE >>)
      [] d = 18 -> Files(Day18Lines, << NEWLINE >>)
      [] OTHER -> {<< >>}

\* what a piece of work of day d does on the buffer: computed for the days
\* whose parsing is modelled, any outcome the code has for the others
work_results(d, op, buf) ==
    CASE d = 1 -> {day1_work(op.label, buf)}
      [] d = 4 -> {day4_work(op.label, buf)}
      [] d = 18 -> {day18_work(op.label, buf)}
      [] OTHER -> {"ok"} \cup op.fails

(***************************************************************************)
(* The process: main, then the day's run                                   *)
(***************************************************************************)
Commands == Range(DayName) \cup {"day0", "day20", "help"}
RestArgs == {<< >>} \cup {<<"input.txt">> \o x :
                             x \in SeqsUpTo({"extra"}, MaxExtraArgs)}
Argvs == {<< >>} \cup {<< c >> \o r : c \in Commands, r \in RestArgs}

\* a panic writes its message, then unwinds the stack
Panic(msg) ==
    /\ log' = Append(log, Ev("panic", msg, 0, Scope))
    /\ result' = "panic"
    /\ pc' = "unwind"

\* main.rs:76-77
main_args ==
    /\ pc = "main"
    /\ log' = Append(log, Ev("args", "", 0, {}))
    /\ pc' = "split_first"
    /\ UNCHANGED <<argv, file, content, day, rest, ip, timers, created,
                   result, err, called>>
    /\ UNCHANGED <<utilVars, day13Vars, pureVars>>

\* main.rs:79-81
main_split_first ==
    /\ pc = "split_first"
    /\ IF argv = << >>
       THEN Panic("no command")
       ELSE pc' = "time" /\ UNCHANGED <<log, result>>
    /\ UNCHANGED <<argv, file, content, day, rest, ip, timers, created, err,
                   called>>
    /\ UNCHANGED <<utilVars, day13Vars, pureVars>>

\* main.rs:83
main_time ==
    /\ pc = "time"
    /\ LET st == time("command",
                      [timers |-> timers, created |-> created, log |-> log])
       IN /\ timers' = st.timers
          /\ created' = st.created
          /\ log' = st.log
    /\ pc' = "match"
    /\ UNCHANGED <<argv, file, content, day, rest, ip, result, err, called>>
    /\ UNCHANGED <<utilVars, day13Vars, pureVars>>

\* main.rs:84-100
main_dispatch ==
    /\ pc = "match"
    /\ LET d == main_match(argv[1]) IN
       IF d # 0
       THEN /\ day' = d
            /\ rest' = Tail(argv)
            /\ called' = Append(called, [day |-> d, args |-> Tail(argv)])
            /\ pc' = "run_args"
            /\ UNCHANGED <<result, err>>
       ELSE /\ result' = unrecognized(argv[1]).result
            /\ err' = unrecognized(argv[1]).err
            /\ pc' = "ret"
            /\ UNCHANGED <<day, rest, called>>
    /\ UNCHANGED <<argv, file, content, ip, timers, created, log>>
    /\ UNCHANGED <<utilVars, day13Vars, pureVars>>

\* args[0]
run_args ==
    /\ pc = "run_args"
    /\ IF rest = << >>
       THEN Panic("index out of bounds")
       ELSE pc' = "run_read" /\ UNCHANGED <<log, result>>
    /\ UNCHANGED <<argv, file, content, day, rest, ip, timers, created, err,
                   called>>
    /\ UNCHANGED <<utilVars, day13Vars, pureVars>>

\* read_file_bytes(args[0])? or fs::read_to_string(args[0]).context(..)?
run_read ==
    /\ pc = "run_read"
    /\ log' = Append(log, Ev("open", rest[1], 0, Scope))
    /\ LET r == read_input(day, file) IN
       IF r.result = "ok"
       THEN pc' = "run_body" /\ ip' = 1 /\ UNCHANGED <<result, err>>
       ELSE result' = "err" /\ err' = r.err /\ pc' = "ret" /\ UNCHANGED ip
    /\ UNCHANGED <<argv, file, content, day, rest, timers, created, called>>
    /\ UNCHANGED <<utilVars, day13Vars, pureVars>>

AtOp(kind) ==
    /\ pc = "run_body"
    /\ ip <= Len(Body(day))
    /\ Body(day)[ip].op = kind

\* time!(..) opens a timed block
run_enter ==
    /\ AtOp("enter")
    /\ LET st == time(Body(day)[ip].label,
                      [timers |-> timers, created |-> created, log |-> log])
       IN /\ timers' = st.timers
          /\ created' = st.created
          /\ log' = st.log
    /\ ip' = ip + 1
    /\ UNCHANGED <<argv, file, content, pc, day, rest, result, err, called>>
    /\ UNCHANGED <<utilVars, day13Vars, pureVars>>

\* the timed block's scope ends: _timer is dropped
run_exit ==
    /\ AtOp("exit")
    /\ timers' = Front(timers)
    /\ log' = Timer_drop(Last(timers), log)
    /\ ip' = ip + 1
    /\ UNCHANGED <<argv, file, content, pc, day, rest, created, result, err,
                   called>>
    /\ UNCHANGED <<utilVars, day13Vars, pureVars>>

\* dbg!(..) or println!(..) of an answer
run_answer ==
    /\ AtOp("answer")
    /\ log' = Append(log, Ev("answer", Body(day)[ip].label, 0, Scope))
    /\ ip' = ip + 1
    /\ UNCHANGED <<argv, file, content, pc, day, rest, timers, created, result,
                   err, called>>
    /\ UNCHANGED <<utilVars, day13Vars, pureVars>>

\* parsing or computing: goes on, panics, or leaves run with an error (`?`)
run_work ==
    /\ AtOp("work")
    /\ \E r \in work_results(day, Body(day)[ip], content) :
         CASE r = "ok" ->
                /\ log' = Append(log, Ev("work", Body(day)[ip].label, 0, Scope))
                /\ ip' = ip + 1
                /\ UNCHANGED <<pc, result, err>>
           [] r = "panic" ->
                /\ Panic(Body(day)[ip].label)
                /\ UNCHANGED <<ip, err>>
           [] r = "err" ->
                /\ result' = "err"
                /\ err' = [context |-> Body(day)[ip].context, arg |-> ""]
                /\ pc' = "ret"
                /\ UNCHANGED <<ip, log>>
    /\ UNCHANGED <<argv, file, content, day, rest, timers, created, called>>
    /\ UNCHANGED <<utilVars, day13Vars, pureVars>>

\* Ok(())
run_return ==
    /\ pc = "run_body"
    /\ ip > Len(Body(day))
    /\ result' = "ok"
    /\ pc' = "ret"
    /\ UNCHANGED <<argv, file, content, day, rest, ip, timers, created, log,
                   err, called>>
    /\ UNCHANGED <<utilVars, day13Vars, pureVars>>

\* leaving the scopes still open, by return or by unwinding, drops their timers
drop_pending ==
    /\ pc \in {"ret", "unwind"}
    /\ timers # << >>
    /\ timers' = Front(timers)
    /\ log' = Timer_drop(Last(timers), log)
    /\ UNCHANGED <<argv, file, content, pc, day, rest, ip, created, result, err,
                   called>>
    /\ UNCHANGED <<utilVars, day13Vars, pureVars>>

\* the entry point is left
exit ==
    /\ pc \in {"ret", "unwind"}
    /\ timers = << >>
    /\ pc' = "done"
    /\ UNCHANGED <<argv, file, content, day, rest, ip, timers, created, log,
                   result, err, called>>
    /\ UNCHANGED <<utilVars, day13Vars, pureVars>>

RunNext ==
    \/ run_args \/ run_read \/ run_enter \/ run_exit \/ run_answer
    \/ run_work \/ run_return \/ drop_pending \/ exit

\* the binary, started with any command line
Init ==
    /\ argv \in Argvs
    /\ file \in FileStates
    /\ content \in IF file = "ok" /\ Len(argv) >= 2
                   THEN Buffers(main_match(argv[1])) ELSE {<< >>}
    /\ pc = "main"
    /\ day = 0
    /\ rest = << >>
    /\ ip = 0
    /\ timers = << >>
    /\ created = 0
    /\ log = << >>
    /\ result = "none"
    /\ err = NoErr
    /\ called = << >>
    /\ UtilIdle
    /\ Day13Idle
    /\ PureIdle

Next ==
    \/ main_args \/ main_split_first \/ main_time \/ main_dispatch
    \/ RunNext

Spec == Init /\ [][Next]_vars

\* a day's run, called with any argument slice
RunInit ==
    /\ argv = << >>
    /\ day \in Days
    /\ rest \in RestArgs
    /\ file \in FileStates
    /\ content \in IF file = "ok" /\ rest # << >> THEN Buffers(day) ELSE {<< >>}
    /\ pc = "run_args"
    /\ ip = 0
    /\ timers = << >>
    /\ created = 0
    /\ log = << >>
    /\ result = "none"
    /\ err = NoErr
    /\ called = << [day |-> day, args |-> rest] >>
    /\ UtilIdle
    /\ Day13Idle
    /\ PureIdle

SpecRun == RunInit /\ [][RunNext]_vars

(***************************************************************************)
(* Properties of the dispatcher, the timer and the runs                    *)
(***************************************************************************)
Done == pc = "done"
Kinds(k) == {i \in DOMAIN log : log[i].kind = k}
DayOf(name) == CHOOSE d \in Days : DayName[d] = name
Recognized == {c \in Commands : main_match(c) # 0}
InMain == pc \in {"main", "split_first", "time", "match"}

\* C1: for every day name day1..day19 that has a solver unit, the dispatcher
\* calls that day's run with the remaining arguments and reports no
\* unrecognized command.
C1_EverySolverIsDispatched ==
    (~InMain /\ argv # << >> /\ argv[1] \in Range(DayName))
        => /\ called = << [day |-> DayOf(argv[1]), args |-> Tail(argv)] >>
           /\ err.context # "unrecognized command"

\* C2: a first argument that is not a recognized day name runs no solver and
\* makes main return an error value naming the command; no panic, no success.
C2_UnrecognizedIsError ==
    (argv # << >> /\ argv[1] \notin Recognized)
        => /\ called = << >>
           /\ result \notin {"panic", "ok"}
           /\ Done => /\ result = "err"
                      /\ err = [context |-> "unrecognized command",
                                arg |-> argv[1]]

C2_Witness ==
    /\ Done
    /\ argv # << >>
    /\ argv[1] = "help"
    /\ result = "err"

\* C3: with no day name, or a day name and no input path, the process panics
\* before any file is opened or any answer printed, and never succeeds.
C3_MissingArgumentPanics ==
    (Done /\ (argv = << >> \/ (Len(argv) = 1 /\ argv[1] \in Range(DayName))))
        => /\ result = "panic"
           /\ Kinds("open") = {}
           /\ Kinds("answer") = {}

\* C4: every timed block gets exactly one timing line, written when the
\* block's scope exits and after everything computed or written inside the
\* block, however the block is left (normally, with an error, by a panic).
C4_OneTimingLinePerBlock ==
    /\ Len(timers) + Cardinality(Kinds("timing")) = created
    /\ \A i, j \in Kinds("timing") : log[i].id = log[j].id => i = j
    /\ \A k \in 1..Len(timers) : \A j \in Kinds("timing") :
           log[j].id # timers[k].id
    /\ \A i \in DOMAIN log : \A j \in Kinds("timing") :
           log[j].id \in log[i].scope => i < j
    /\ Done => timers = << >>

C4_Witness ==
    /\ Done
    /\ result = "panic"
    /\ created = 2
    /\ Cardinality(Kinds("timing")) = 2
    /\ \E i \in Kinds("panic") : Cardinality(log[i].scope) = 2

\* C5: for every day, an input file that cannot be opened or read makes run
\* return an error value with a context message; no panic, no answer.
C5_UnreadableFileIsError ==
    (file # "ok" /\ rest # << >>)
        => /\ result \notin {"panic", "ok"}
           /\ Kinds("answer") = {}
           /\ Done => /\ result = "err"
                      /\ err.context \in {"Failed to open file",
                                          "Failed to read file"}

C5_Witness ==
    /\ Done
    /\ day = 8
    /\ file = "absent"
    /\ result = "err"
    /\ Kinds("open") # {}

\* what the formats of days 1, 4 and 18 rule out
Day1BadLine(buf) ==
    \E i \in 1..Len(lines(buf)) :
        /\ lines(buf)[i] # << >>
        /\ ~parse_u32(lines(buf)[i]).ok
        /\ \A j \in 1..(i - 1) : lines(buf)[j] # << >>

\* key:value, the key known and no further colon
Day4GoodField(f) ==
    /\ Len(f) >= 2
    /\ f[1] \in PassportKeys
    /\ f[2] = ":"
    /\ \A i \in 3..Len(f) : f[i] # ":"

Day4BadField(buf) ==
    \E i \in 1..Len(split_ascii_whitespace(buf)) :
        ~Day4GoodField(split_ascii_whitespace(buf)[i])

IsJunk(c) == ~IsToken(c) /\ ~IsWhitespace(c)
Day18Junk(buf) == \E i \in 1..Len(buf) : IsJunk(buf[i])
NotJunk(c) == ~IsJunk(c)

Malformed(d, buf) ==
    \/ d = 1 /\ Day1BadLine(buf)
    \/ d = 4 /\ Day4BadField(buf)
    \/ d = 18 /\ Day18Junk(buf)

Split_next(rem) ==
    LET i == IndexOf(rem, NEWLINE) IN
    IF i = 0
    THEN [piece |-> rem, remainder |-> << >>, finished |-> TRUE]
    ELSE [piece |-> SubSeq(rem, 1, i - 1),
          remainder |-> SubSeq(rem, i + 1, Len(rem)),
          finished |-> FALSE]

\* TakeWhile::next, the piece is not empty: it is yielded
next_yield ==
    /\ ~flag /\ ~finished
    /\ Split_next(remainder).piece # << >>
    /\ yielded' = Append(yielded, Split_next(remainder).piece)
    /\ remainder' = Split_next(remainder).remainder
    /\ finished' = Split_next(remainder).finished
    /\ UNCHANGED <<buffer, flag>>
    /\ UNCHANGED <<cliVars, day13Vars, pureVars>>

\* TakeWhile::next, the piece is empty: the iterator ends for good
next_stop ==
    /\ ~flag /\ ~finished
    /\ Split_next(remainder).piece = << >>
    /\ flag' = TRUE
    /\ remainder' = Split_next(remainder).remainder
    /\ finished' = Split_next(remainder).finished
    /\ UNCHANGED <<buffer, yielded>>
    /\ UNCHANGED <<cliVars, day13Vars, pureVars>>

\* every later call of next returns None
Exhausted == flag \/ finished

CliIdle ==
    /\ argv = << >>
    /\ file = "ok"
    /\ content = << >>
    /\ pc = "idle"
    /\ day = 0
    /\ rest = << >>
    /\ ip = 0
    /\ timers = << >>
    /\ created = 0
    /\ log = << >>
    /\ result = "none"
    /\ err = NoErr
    /\ called = << >>

LinesInit ==
    /\ buffer \in SeqsUpTo({"a", "b", NEWLINE}, MaxBufLen)
    /\ remainder = buffer
    /\ finished = FALSE
    /\ flag = FALSE
    /\ yielded = << >>
    /\ CliIdle
    /\ Day13Idle
    /\ PureIdle

LinesNext == next_yield \/ next_stop

SpecLines == LinesInit /\ [][LinesNext]_vars

\* the slices between the newlines of buf, in order, without the empty one
\* that follows a final newline (none for the empty buffer)
NewlineDelimited(buf) ==
    LET nl == {i \in 1..Len(buf) : buf[i] = NEWLINE}
        k == Cardinality(nl)
        cut(j) == IF j = 0 THEN 0
                  ELSE IF j = k + 1 THEN Len(buf) + 1
                  ELSE CHOOSE i \in nl : Cardinality({h \in nl : h < i}) = j - 1
        all == [j \in 1..(k + 1) |-> SubSeq(buf, cut(j - 1) + 1, cut(j) - 1)]
    IN IF all[k + 1] = << >> THEN Front(all) ELSE all

\* C7: split_bytes_lines yields, in order, every newline-delimited slice of
\* the buffer, lines after an empty line included, and leaves out only the
\* empty piece after a final newline.
C7_YieldsEveryLine == Exhausted => yielded = NewlineDelimited(buffer)

(***************************************************************************)
(* src/day13.rs: egcd and modinv                                           *)
(***************************************************************************)
Abs(x) == IF x < 0 THEN -x ELSE x

\* i64 `/`: the quotient rounded toward zero
div(x, y) ==
    IF (x < 0) = (y < 0) THEN Abs(x) \div Abs(y) ELSE -(Abs(x) \div Abs(y))

\* i64::rem_euclid for a modulus that is not zero: the remainder in 0..|m|-1
rem_euclid(x, m) == x % Abs(m)

\* a loop body with t updated from s
egcd_body_mixed(l) ==
    LET q == div(l.r_p, l.r) IN
    [r_p |-> l.r, r |-> l.r_p - q * l.r,
     s_p |-> l.s, s |-> l.s_p - q * l.s,
     t_p |-> l.t, t |-> l.t_p - q * l.s]

\* day13.rs:12-24, one turn of the while loop
egcd_body(l) ==
    LET q == div(l.r_p, l.r) IN
    [r_p |-> l.r, r |-> l.r_p - q * l.r,
     s_p |-> l.s, s |-> l.s_p - q * l.s,
     t_p |-> l.t, t |-> l.t_p - q * l.t]

\* day13.rs:11, while r != 0
egcd_while ==
    /\ epc = "loop"
    /\ loop.r # 0
    /\ loop' = egcd_body(loop)
    /\ UNCHANGED <<call, arg_a, arg_b, epc, xyd, inv>>
    /\ UNCHANGED <<cliVars, utilVars, pureVars>>

\* day13.rs:27-33, the assertion and the return
egcd_return ==
    /\ epc = "loop"
    /\ loop.r = 0
    /\ IF arg_a * loop.s_p + arg_b * loop.t_p = loop.r_p
       THEN /\ xyd' = << loop.s_p, loop.t_p, loop.r_p >>
            /\ epc' = IF call = "egcd" THEN "done" ELSE "ret"
       ELSE /\ epc' = "egcd_abort"
            /\ UNCHANGED xyd
    /\ UNCHANGED <<call, arg_a, arg_b, loop, inv>>
    /\ UNCHANGED <<cliVars, utilVars, pureVars>>

None == [some |-> FALSE, val |-> 0]
Some(v) == [some |-> TRUE, val |-> v]

\* day13.rs:38-47, modinv after its call of egcd(a, m); rem_euclid panics on
\* a zero modulus
modinv_return ==
    /\ epc = "ret"
    /\ IF xyd[3] = 1
       THEN IF arg_b = 0
            THEN epc' = "modinv_abort" /\ UNCHANGED inv
            ELSE LET inv_a == rem_euclid(xyd[1], arg_b) IN
                 IF rem_euclid(arg_a * inv_a, arg_b) = 1
                 THEN inv' = Some(inv_a) /\ epc' = "done"
                 ELSE epc' = "modinv_abort" /\ UNCHANGED inv
       ELSE inv' = None /\ epc' = "done"
    /\ UNCHANGED <<call, arg_a, arg_b, loop, xyd>>
    /\ UNCHANGED <<cliVars, utilVars, pureVars>>

\* egcd(a, b) or modinv(a, m) called on any pair; day13.rs:7-9
EgcdInit ==
    /\ call \in {"egcd", "modinv"}
    /\ arg_a \in (-MaxAbs)..MaxAbs
    /\ arg_b \in (-MaxAbs)..MaxAbs
    /\ loop = [r_p |-> arg_a, r |-> arg_b, s_p |-> 1, s |-> 0,
               t_p |-> 0, t |-> 1]
    /\ epc = "loop"
    /\ xyd = << >>
    /\ inv = None
    /\ CliIdle
    /\ UtilIdle
    /\ PureIdle

EgcdNext == egcd_while \/ egcd_return \/ modinv_return

\* the call runs on: nothing else is scheduled
SpecEgcd == EgcdInit /\ [][EgcdNext]_vars /\ WF_vars(EgcdNext)

Divides(p, q) == \E k \in (-Abs(q))..Abs(q) : q = k * p

\* d is the greatest common divisor of x and y
IsGcd(d, x, y) ==
    /\ d >= 0
    /\ Divides(d, x) /\ Divides(d, y)
    /\ \A c \in 1..(Abs(x) + Abs(y) + 1) :
           (Divides(c, x) /\ Divides(c, y)) => Divides(c, d)

\* C8: for all a and b of either sign, zero included, egcd(a, b) terminates
\* and returns (x, y, d) with a*x + b*y = d; its assertion never fails.
C8_EgcdTerminatesWithIdentity ==
    /\ <>(epc # "loop")
    /\ [](epc # "egcd_abort")
    /\ [](xyd # << >> => arg_a * xyd[1] + arg_b * xyd[2] = xyd[3])

C8_Witness ==
    /\ call = "egcd"
    /\ epc = "done"
    /\ arg_a < 0
    /\ arg_b > 1
    /\ xyd[1] # 0 /\ xyd[2] # 0
    /\ arg_a * xyd[1] + arg_b * xyd[2] = xyd[3]

\* C9: for all a and b of either sign, the d returned by egcd(a, b) is the
\* greatest common divisor of a and b: the non-negative integer that divides
\* both and is divisible by every common divisor.
C9_ThirdComponentIsGcd ==
    (call = "egcd" /\ epc = "done") => IsGcd(xyd[3], arg_a, arg_b)

\* C10: for every a and every modulus m >= 1, modinv(a, m) returns Some(inv)
\* with 0 <= inv < m and a*inv congruent to 1 modulo m when a and m are
\* coprime, None when they are not, and never aborts on its assertion.
C10_ModinvIsInverse ==
    (call = "modinv" /\ arg_b >= 1) =>
        /\ epc # "modinv_abort"
        /\ epc = "done" =>
              IF IsGcd(1, arg_a, arg_b)
              THEN /\ inv.some
                   /\ 0 <= inv.val /\ inv.val < arg_b
                   /\ (arg_a * inv.val - 1) % arg_b = 0
              ELSE ~inv.some

(***************************************************************************)
(* src/day13.rs: chinese_remainder_theorem                                 *)
(***************************************************************************)
RECURSIVE egcd_loop(_)
\* day13.rs:11-25, the while loop run to its end
egcd_loop(l) == IF l.r = 0 THEN l ELSE egcd_loop(egcd_body(l))

\* day13.rs:6-34, egcd as a function; abort: its assert_eq fails
egcd(a, b) ==
    LET l == egcd_loop([r_p |-> a, r |-> b, s_p |-> 1, s |-> 0,
                        t_p |-> 0, t |-> 1])
    IN [abort |-> a * l.s_p + b * l.t_p # l.r_p,
        x |-> l.s_p, y |-> l.t_p, d |-> l.r_p]

Aborted == [abort |-> TRUE, some |-> FALSE, val |-> 0]
Returned(opt) == [abort |-> FALSE, some |-> opt.some, val |-> opt.val]

\* day13.rs:37-48, modinv as a function
modinv(a, m) ==
    LET e == egcd(a, m) IN
    IF e.abort THEN Aborted
    ELSE IF e.d = 1
         THEN IF m = 0 THEN Aborted
              ELSE LET inv_a == rem_euclid(e.x, m) IN
                   IF rem_euclid(a * inv_a, m) = 1
                   THEN Returned(Some(inv_a))
                   ELSE Aborted
         ELSE Returned(None)

RECURSIVE product(_)
\* n.iter().product()
product(n) == IF n = << >> THEN 1 ELSE n[1] * product(Tail(n))

\* day13.rs:67
crt_product ==
    /\ crt_pc = "start"
    /\ crt_N' = product(crt_n)
    /\ crt_pc' = "iter"
    /\ UNCHANGED <<crt_a, crt_n, crt_i, crt_sum, crt_out>>
    /\ UNCHANGED notCrt

\* day13.rs:74
crt_term(a_i, M_i, N_i) == a_i * M_i * N_i

\* day13.rs:69-76, the sum takes the next pair of the zip through the map:
\* N / n_i panics on a zero modulus, `?` and the sum of Options end the
\* iteration at the first None
crt_next ==
    /\ crt_pc = "iter"
    /\ crt_i <= Len(crt_a) /\ crt_i <= Len(crt_n)
    /\ LET a_i == crt_a[crt_i]
           n_i == crt_n[crt_i]
       IN IF n_i = 0
          THEN crt_pc' = "abort" /\ UNCHANGED <<crt_i, crt_sum, crt_out>>
          ELSE LET N_i == div(crt_N, n_i)
                   M_i == modinv(N_i, n_i)
               IN IF M_i.abort
                  THEN /\ crt_pc' = "abort"
                       /\ UNCHANGED <<crt_i, crt_sum, crt_out>>
                  ELSE IF ~M_i.some
                  THEN /\ crt_pc' = "done"
                       /\ crt_out' = None
                       /\ UNCHANGED <<crt_i, crt_sum>>
                  ELSE /\ crt_sum' = crt_sum + crt_term(a_i, M_i.val, N_i)
                       /\ crt_i' = crt_i + 1
                       /\ UNCHANGED <<crt_pc, crt_out>>
    /\ UNCHANGED <<crt_a, crt_n, crt_N>>
    /\ UNCHANGED notCrt

\* day13.rs:76-77, the zip is exhausted: Some(sum), mapped to its remainder
crt_finish ==
    /\ crt_pc = "iter"
    /\ crt_i > Len(crt_a) \/ crt_i > Len(crt_n)
    /\ IF crt_N = 0
       THEN crt_pc' = "abort" /\ UNCHANGED crt_out
       ELSE crt_pc' = "done" /\ crt_out' = Some(rem_euclid(crt_sum, crt_N))
    /\ UNCHANGED <<crt_a, crt_n, crt_N, crt_i, crt_sum>>
    /\ UNCHANGED notCrt

SeqsOfLen(S, k) == [1..k -> S]

\* chinese_remainder_theorem(a, n) called on two slices of one length
CrtInit ==
    /\ \E k \in 0..MaxCrtLen :
          /\ crt_a \in SeqsOfLen((-1)..MaxResidue, k)
          /\ crt_n \in SeqsOfLen(0..MaxModulus, k)
    /\ crt_N = 0
    /\ crt_i = 1
    /\ crt_sum = 0
    /\ crt_pc = "start"
    /\ crt_out = None
    /\ CliIdle
    /\ UtilIdle
    /\ Day13Idle
    /\ RsIdle
    /\ Day8Idle
    /\ Day19Idle
    /\ Day15Idle
    /\ Day9Idle
    /\ Day11Idle
    /\ Day14Idle

CrtNext == crt_product \/ crt_next \/ crt_finish

SpecCrt == CrtInit /\ [][CrtNext]_vars

Coprime(x, y) == IsGcd(1, x, y)

PairwiseCoprimePositive(n) ==
    /\ \A i \in 1..Len(n) : n[i] >= 1
    /\ \A i, j \in 1..Len(n) : i < j => Coprime(n[i], n[j])

\* C11: for pairwise coprime positive moduli n_1..n_k and any residues
\* a_1..a_k, chinese_remainder_theorem(a, n) does not abort and returns
\* Some(x) with 0 <= x < N and x congruent to a_i modulo n_i for every i.
C11_CrtSolvesTheSystem ==
    PairwiseCoprimePositive(crt_n) =>
        /\ crt_pc # "abort"
        /\ crt_pc = "done" =>
              /\ crt_out.some
              /\ 0 <= crt_out.val /\ crt_out.val < product(crt_n)
              /\ \A i \in 1..Len(crt_n) :
                     (crt_out.val - crt_a[i]) % crt_n[i] = 0

SharesFactor(x, y) ==
    \E c \in 2..(MaxModulus + 1) : Divides(c, x) /\ Divides(c, y)

\* C12: when two of the moduli share a common factor greater than 1,
\* chinese_remainder_theorem returns None: no value and no abort.
C12_CommonFactorIsNone ==
    (\E i, j \in 1..Len(crt_n) : i < j /\ SharesFactor(crt_n[i], crt_n[j])) =>
        /\ crt_pc # "abort"
        /\ crt_pc = "done" => ~crt_out.some

(***************************************************************************)
(* src/day16.rs: RangeSet                                                  *)
(***************************************************************************)
U16_MAX == 65535

\* Range::new(start, end), an inclusive range of u16
Range_new(start, end) == [start |-> start, end |-> end]

\* RangeInclusive::contains
range_contains(range, value) == range.start <= value /\ value <= range.end

\* std::cmp::max
max(x, y) == IF x >= y THEN x ELSE y

\* the orders sort_unstable_by_key may leave: the same ranges, ascending by
\* start, ranges of equal start in any order
sort_unstable_by_start(unsorted) ==
    LET k == Len(unsorted)
        perms == {f \in [1..k -> 1..k] : \A i, j \in 1..k : i # j => f[i] # f[j]}
    IN {[i \in 1..k |-> unsorted[f[i]]] : f \in
           {g \in perms : \A i, j \in 1..k :
                i < j => unsorted[g[i]].start <= unsorted[g[j]].start}}

\* day16.rs:43-47
from_iter_sort ==
    /\ rs_pc = "start"
    /\ rs_sorted' \in sort_unstable_by_start(rs_input)
    /\ rs_merged' = << >>
    /\ rs_pc' = "outer"
    /\ UNCHANGED <<rs_build, rs_input, rs_range>>
    /\ UNCHANGED notRs

\* day16.rs:49-50, while let Some(range) = sorted.next()
from_iter_next ==
    /\ rs_pc = "outer"
    /\ rs_sorted # << >>
    /\ rs_range' = Head(rs_sorted)
    /\ rs_sorted' = Tail(rs_sorted)
    /\ rs_pc' = "inner"
    /\ UNCHANGED <<rs_build, rs_input, rs_merged>>
    /\ UNCHANGED notRs

\* day16.rs:62, the outer loop ends
from_iter_return ==
    /\ rs_pc = "outer"
    /\ rs_sorted = << >>
    /\ rs_pc' = "done"
    /\ UNCHANGED <<rs_build, rs_input, rs_sorted, rs_range, rs_merged>>
    /\ UNCHANGED notRs

\* `end + 1` on u16 with overflow checks off
wrapping_succ(end) == (end + 1) % (U16_MAX + 1)

\* day16.rs:54, the closure |next| *next.start() <= end + 1
eats(next, end1) == next.start <= end1

\* day16.rs:24-33 and 54, next_if peeks and finds a range; `end + 1`
\* overflows: the build with overflow checks panics
from_iter_overflow ==
    /\ rs_pc = "inner"
    /\ rs_sorted # << >>
    /\ rs_range.end = U16_MAX
    /\ rs_build = "debug"
    /\ rs_pc' = "abort"
    /\ UNCHANGED <<rs_build, rs_input, rs_sorted, rs_range, rs_merged>>
    /\ UNCHANGED notRs

\* day16.rs:54-56, the peeked range is eaten
from_iter_eat ==
    /\ rs_pc = "inner"
    /\ rs_sorted # << >>
    /\ ~(rs_range.end = U16_MAX /\ rs_build = "debug")
    /\ eats(Head(rs_sorted), wrapping_succ(rs_range.end))
    /\ rs_range' = Range_new(rs_range.start,
                             max(rs_range.end, Head(rs_sorted).end))
    /\ rs_sorted' = Tail(rs_sorted)
    /\ UNCHANGED <<rs_build, rs_input, rs_merged, rs_pc>>
    /\ UNCHANGED notRs

\* day16.rs:58-59, next_if gives None: the range is pushed
from_iter_push ==
    /\ rs_pc = "inner"
    /\ \/ rs_sorted = << >>
       \/ /\ rs_sorted # << >>
          /\ ~(rs_range.end = U16_MAX /\ rs_build = "debug")
          /\ ~eats(Head(rs_sorted), wrapping_succ(rs_range.end))
    /\ rs_merged' = Append(rs_merged, Range_new(rs_range.start, rs_range.end))
    /\ rs_pc' = "outer"
    /\ UNCHANGED <<rs_build, rs_input, rs_sorted, rs_range>>
    /\ UNCHANGED notRs

\* day16.rs:65-72, RangeSet::contains
contains(merged, value) ==
    \E i \in 1..Len(merged) : range_contains(merged[i], value)

\* the u16 values the ranges are made of
Bounds16 == (0..MaxLow) \cup {U16_MAX}

Ranges16 ==
    {Range_new(p[1], p[2]) : p \in {q \in Bounds16 \X Bounds16 : q[1] <= q[2]}}

\* RangeSet::from_iter called on ranges with start <= end, in any order
RsInit ==
    /\ rs_build \in {"debug", "release"}
    /\ \E k \in 0..MaxRanges : rs_input \in SeqsOfLen(Ranges16, k)
    /\ rs_sorted = << >>
    /\ rs_range = << >>
    /\ rs_merged = << >>
    /\ rs_pc = "start"
    /\ CliIdle
    /\ UtilIdle
    /\ Day13Idle
    /\ CrtIdle
    /\ Day8Idle
    /\ Day19Idle
    /\ Day15Idle
    /\ Day9Idle
    /\ Day11Idle
    /\ Day14Idle

RsNext ==
    \/ from_iter_sort
    \/ from_iter_next
    \/ from_iter_return
    \/ from_iter_overflow
    \/ from_iter_eat
    \/ from_iter_push

SpecRangeSet == RsInit /\ [][RsNext]_vars

\* the values at which membership can change: the bounds and their neighbours
Probes ==
    {v \in 0..U16_MAX : \E c \in Bounds16 : v \in {c - 1, c, c + 1}}

\* C13: for ranges with start <= end in any order and every value v,
\* RangeSet::from_iter(ranges) is built and its contains(v) is true exactly
\* when at least one input range contains v.
C13_ContainsIsUnion ==
    /\ rs_pc # "abort"
    /\ rs_pc = "done" =>
          \A v \in Probes :
              contains(rs_merged, v) <=>
                  \E i \in 1..Len(rs_input) : range_contains(rs_input[i], v)

\* C14: the merged list built by RangeSet::from_iter is sorted by start and
\* each next range starts at least two above the previous range's end, for
\* bounds anywhere in 0..=65535.
C14_MergedIsSortedAndSeparated ==
    /\ rs_pc # "abort"
    /\ rs_pc = "done" =>
          \A i \in 1..(Len(rs_merged) - 1) :
              /\ rs_merged[i].start <= rs_merged[i + 1].start
              /\ rs_merged[i + 1].start >= rs_merged[i].end + 2

(***************************************************************************)
(* src/day8.rs: eval                                                       *)
(* Indices are those of the code: instruction 0 is instrs[1] here.         *)
(***************************************************************************)
Acc(amt) == [op |-> "acc", arg |-> amt]
Jmp(off) == [op |-> "jmp", arg |-> off]
Nop(off) == [op |-> "nop", arg |-> off]

is_jmp(instr) == instr.op = "jmp"
is_nop(instr) == instr.op = "nop"

\* instrs[idx] of the code, idx within the slice
at(instrs, idx) == instrs[idx + 1]

Ok(v) == [kind |-> "Ok", val |-> v]
Err(v) == [kind |-> "Err", val |-> v]

\* day8.rs:80-84
eval_locals == [ip |-> 0, acc |-> 0, visited |-> {}, steps |-> 0]

\* day8.rs:88, the program has terminated
eval_terminated(instrs, st) == st.ip = Len(instrs)

\* day8.rs:92, instrs[ip as usize] is out of bounds: a negative ip is a
\* huge usize
eval_out_of_bounds(instrs, st) == st.ip < 0 \/ st.ip > Len(instrs)

\* day8.rs:93, the instruction was executed before
eval_looping(instrs, st) ==
    /\ ~eval_terminated(instrs, st)
    /\ ~eval_out_of_bounds(instrs, st)
    /\ st.ip \in st.visited

\* day8.rs:97-106, one instruction is marked and evaluated
eval_instr(instrs, st) ==
    LET instr == at(instrs, st.ip) IN
    [ip |-> (IF instr.op = "jmp" THEN st.ip + (instr.arg - 1) ELSE st.ip) + 1,
     acc |-> IF instr.op = "acc" THEN st.acc + instr.arg ELSE st.acc,
     visited |-> st.visited \cup {st.ip},
     steps |-> st.steps + 1]

RECURSIVE eval_from(_, _)
\* day8.rs:86-107, the loop run to its return or its panic
eval_from(instrs, st) ==
    IF eval_terminated(instrs, st) THEN Ok(st.acc)
    ELSE IF eval_out_of_bounds(instrs, st) THEN [kind |-> "panic", val |-> 0]
    ELSE IF eval_looping(instrs, st) THEN Err(st.acc)
    ELSE eval_from(instrs, eval_instr(instrs, st))

\* day8.rs:79-108
eval(instrs) == eval_from(instrs, eval_locals)

\* day8.rs:86-106, one turn of the loop that does not return
eval_loop ==
    /\ d8_call = "eval"
    /\ d8_pc = "loop"
    /\ ~eval_terminated(d8_instrs, d8_st)
    /\ ~eval_out_of_bounds(d8_instrs, d8_st)
    /\ ~eval_looping(d8_instrs, d8_st)
    /\ d8_st' = eval_instr(d8_instrs, d8_st)
    /\ UNCHANGED <<d8_call, d8_instrs, d8_nop, d8_pc, d8_ret, d8_leaders,
                   d8_blocks, d8_map, d8_graph, d8_repair>>
    /\ UNCHANGED notDay8

\* day8.rs:88-90 and 93-95, the two returns
eval_return ==
    /\ d8_call = "eval"
    /\ d8_pc = "loop"
    /\ \/ eval_terminated(d8_instrs, d8_st) /\ d8_ret' = Ok(d8_st.acc)
       \/ eval_looping(d8_instrs, d8_st) /\ d8_ret' = Err(d8_st.acc)
    /\ d8_pc' = "done"
    /\ UNCHANGED <<d8_call, d8_instrs, d8_nop, d8_st, d8_leaders, d8_blocks,
                   d8_map, d8_graph, d8_repair>>
    /\ UNCHANGED notDay8

\* day8.rs:92, the index panics
eval_panic ==
    /\ d8_call = "eval"
    /\ d8_pc = "loop"
    /\ ~eval_terminated(d8_instrs, d8_st)
    /\ eval_out_of_bounds(d8_instrs, d8_st)
    /\ d8_pc' = "abort"
    /\ UNCHANGED <<d8_call, d8_instrs, d8_nop, d8_st, d8_ret, d8_leaders,
                   d8_blocks, d8_map, d8_graph, d8_repair>>
    /\ UNCHANGED notDay8

(***************************************************************************)
(* src/day8.rs: leaders, basic_blocks, basic_block_map, basic_block_graph  *)
(***************************************************************************)
\* day8.rs:136-152, maybe_target: the target of a jmp (of a nop too under
\* include_nop) when it is below instrs.len()
has_target(instrs, idx, include_nop) ==
    LET instr == at(instrs, idx) IN
    /\ is_jmp(instr) \/ (include_nop /\ is_nop(instr))
    /\ idx + instr.arg < Len(instrs)

\* day8.rs:117-160; FixedBitSet::insert panics on a bit at or above its
\* capacity, which a negative target cast to usize is
leaders(instrs, include_nop) ==
    LET idxs == 0..(Len(instrs) - 1)
        targets == {idx + at(instrs, idx).arg :
                       idx \in {h \in idxs : has_target(instrs, h, include_nop)}}
        after == {idx \in idxs \ {0} :
                     \/ is_jmp(at(instrs, idx - 1))
                     \/ include_nop /\ is_nop(at(instrs, idx - 1))}
    IN [abort |-> \E t \in targets : t < 0,
        bits |-> (idxs \cap {0}) \cup after \cup targets]

\* FixedBitSet::ones, the set bits in ascending order
ones(bits) ==
    [i \in 1..Cardinality(bits) |->
        CHOOSE x \in bits : Cardinality({y \in bits : y < x}) = i - 1]

\* day8.rs:164-174, for a non-empty leader_indices
basic_blocks(leader_indices, terminate_idx) ==
    [i \in 1..Len(leader_indices) |->
        [start |-> leader_indices[i],
         end |-> IF i < Len(leader_indices) THEN leader_indices[i + 1]
                 ELSE terminate_idx]]

\* Range<usize>::len
range_len(r) == IF r.end > r.start THEN r.end - r.start ELSE 0

RECURSIVE block_map_from(_, _)
block_map_from(blocks, idx) ==
    IF idx >= Len(blocks) THEN << >>
    ELSE [i \in 1..range_len(blocks[idx + 1]) |-> idx]
             \o block_map_from(blocks, idx + 1)

\* day8.rs:177-182
basic_block_map(blocks) == block_map_from(blocks, 0)

\* a fallthrough edge into every block but the first
fallthrough_always(instrs, leader_idx) == leader_idx # 0

\* day8.rs:203
fallthrough(instrs, leader_idx) ==
    leader_idx # 0 /\ ~is_jmp(at(instrs, leader_idx - 1))

\* day8.rs:216-231, the jmp edge of the block that ends at end_idx
jmp_edges(instrs, block_map, block_idx, end_idx) ==
    LET instr == at(instrs, end_idx)
        target_idx == end_idx + instr.arg
    IN IF is_jmp(instr) /\ 0 <= target_idx /\ target_idx < Len(instrs)
       THEN {<<block_idx, block_map[target_idx + 1]>>}
       ELSE {}

\* day8.rs:188-237
basic_block_graph(instrs, blocks, block_map) ==
    [nodes |-> Len(blocks),
     edges |-> UNION {
         (IF fallthrough(instrs, blocks[b + 1].start)
          THEN {<<b - 1, b>>} ELSE {})
         \cup jmp_edges(instrs, block_map, b, blocks[b + 1].end - 1) :
         b \in 0..(Len(blocks) - 1)}]

\* day8.rs:304-305 (test: 420-422)
blocks_leaders ==
    /\ d8_call = "blocks"
    /\ d8_pc = "leaders"
    /\ LET l == leaders(d8_instrs, d8_nop) IN
       IF l.abort
       THEN d8_pc' = "abort" /\ UNCHANGED d8_leaders
       ELSE d8_pc' = "basic_blocks" /\ d8_leaders' = ones(l.bits)
    /\ UNCHANGED <<d8_call, d8_instrs, d8_nop, d8_st, d8_ret, d8_blocks,
                   d8_map, d8_graph, d8_repair>>
    /\ UNCHANGED notDay8

\* day8.rs:307-308; leader_indices[len - 1] panics on no leader
blocks_basic_blocks ==
    /\ d8_call = "blocks"
    /\ d8_pc = "basic_blocks"
    /\ IF d8_leaders = << >>
       THEN d8_pc' = "abort" /\ UNCHANGED d8_blocks
       ELSE /\ d8_pc' = "basic_block_map"
            /\ d8_blocks' = basic_blocks(d8_leaders, Len(d8_instrs))
    /\ UNCHANGED <<d8_call, d8_instrs, d8_nop, d8_st, d8_ret, d8_leaders,
                   d8_map, d8_graph, d8_repair>>
    /\ UNCHANGED notDay8

\* day8.rs:309
blocks_basic_block_map ==
    /\ d8_call = "blocks"
    /\ d8_pc = "basic_block_map"
    /\ d8_map' = basic_block_map(d8_blocks)
    /\ d8_pc' = "basic_block_graph"
    /\ UNCHANGED <<d8_call, d8_instrs, d8_nop, d8_st, d8_ret, d8_leaders,
                   d8_blocks, d8_graph, d8_repair>>
    /\ UNCHANGED notDay8

\* day8.rs:310
blocks_basic_block_graph ==
    /\ d8_call = "blocks"
    /\ d8_pc = "basic_block_graph"
    /\ d8_graph' = basic_block_graph(d8_instrs, d8_blocks, d8_map)
    /\ d8_pc' = "done"
    /\ UNCHANGED <<d8_call, d8_instrs, d8_nop, d8_st, d8_ret, d8_leaders,
                   d8_blocks, d8_map, d8_repair>>
    /\ UNCHANGED notDay8

(***************************************************************************)
(* src/day8.rs: connectivity and find_repair                               *)
(***************************************************************************)
RECURSIVE reach(_, _)
\* petgraph Dfs: the nodes visited from the nodes in `seen` along `edges`
reach(edges, seen) ==
    LET more == seen \cup {e[2] : e \in {f \in edges : f[1] \in seen}}
    IN IF more = seen THEN seen ELSE reach(edges, more)

\* petgraph Reversed
reversed(edges) == {<<e[2], e[1]>> : e \in edges}

\* day8.rs:245-254
source_connectivity(graph) == reach(graph.edges, {0})

\* day8.rs:262-273
terminal_connectivity(graph) ==
    reach(reversed(graph.edges), {graph.nodes - 1})

\* day8.rs:276-288
is_connected(graph) == (graph.nodes - 1) \in reach(graph.edges, {0})

RECURSIVE source_instrs_from(_, _, _)
source_instrs_from(blocks, source_blocks, k) ==
    IF k > Len(source_blocks) THEN << >>
    ELSE LET block_idx == source_blocks[k]
             leader_idx == blocks[block_idx + 1].start
             end_idx == blocks[block_idx + 1].end - 1
         IN (IF leader_idx # end_idx
             THEN << <<block_idx, leader_idx>>, <<block_idx, end_idx>> >>
             ELSE << <<block_idx, leader_idx>> >>)
            \o source_instrs_from(blocks, source_blocks, k + 1)

\* day8.rs:326-339, source_blocks_and_instrs
source_blocks_and_instrs(blocks, source_conn) ==
    source_instrs_from(blocks, ones(source_conn), 1)

RECURSIVE repair_scan(_, _, _, _, _)
\* day8.rs:341-374, the search; basic_block_map[target_idx] panics on a
\* target outside the program
repair_scan(instrs, block_map, terminal_conn, cands, k) ==
    IF k > Len(cands) THEN Returned(Some(0))
    ELSE LET block_idx == cands[k][1]
             instr_idx == cands[k][2]
             instr == at(instrs, instr_idx)
             target_idx == instr_idx + instr.arg
             rest_of == repair_scan(instrs, block_map, terminal_conn, cands,
                                    k + 1)
         IN CASE is_jmp(instr) ->
                   IF (block_idx + 1) \in terminal_conn
                   THEN Returned(Some(instr_idx)) ELSE rest_of
              [] is_nop(instr) ->
                   IF target_idx < 0 \/ target_idx >= Len(block_map)
                   THEN Aborted
                   ELSE IF block_map[target_idx + 1] \in terminal_conn
                   THEN Returned(Some(instr_idx)) ELSE rest_of
              [] OTHER -> rest_of

\* day8.rs:303-310
find_repair_graph ==
    /\ d8_call = "find_repair"
    /\ d8_pc = "graph"
    /\ LET l == leaders(d8_instrs, TRUE) IN
       IF l.abort \/ l.bits = {}
       THEN /\ d8_pc' = "abort"
            /\ UNCHANGED <<d8_leaders, d8_blocks, d8_map, d8_graph>>
       ELSE LET blocks == basic_blocks(ones(l.bits), Len(d8_instrs))
                block_map == basic_block_map(blocks)
            IN /\ d8_leaders' = ones(l.bits)
               /\ d8_blocks' = blocks
               /\ d8_map' = block_map
               /\ d8_graph' = basic_block_graph(d8_instrs, blocks, block_map)
               /\ d8_pc' = "is_connected"
    /\ UNCHANGED <<d8_call, d8_instrs, d8_nop, d8_st, d8_ret, d8_repair>>
    /\ UNCHANGED notDay8

\* day8.rs:313-315
find_repair_connected ==
    /\ d8_call = "find_repair"
    /\ d8_pc = "is_connected"
    /\ is_connected(d8_graph)
    /\ d8_repair' = None
    /\ d8_pc' = "done"
    /\ UNCHANGED <<d8_call, d8_instrs, d8_nop, d8_st, d8_ret, d8_leaders,
                   d8_blocks, d8_map, d8_graph>>
    /\ UNCHANGED notDay8

\* day8.rs:317-374
find_repair_search ==
    /\ d8_call = "find_repair"
    /\ d8_pc = "is_connected"
    /\ ~is_connected(d8_graph)
    /\ LET found == repair_scan(d8_instrs, d8_map,
                        terminal_connectivity(d8_graph),
                        source_blocks_and_instrs(d8_blocks,
                            source_connectivity(d8_graph)), 1)
       IN IF found.abort
          THEN d8_pc' = "abort" /\ UNCHANGED d8_repair
          ELSE d8_pc' = "done" /\ d8_repair' = Some(found.val)
    /\ UNCHANGED <<d8_call, d8_instrs, d8_nop, d8_st, d8_ret, d8_leaders,
                   d8_blocks, d8_map, d8_graph>>
    /\ UNCHANGED notDay8

\* the instructions a program is made of
Instrs ==
    {Acc(1)} \cup {Jmp(off) : off \in (-1)..MaxOff}
             \cup {Nop(off) : off \in (-1)..MaxOff}

\* one of the functions is called on a program
Day8Init ==
    /\ d8_call \in {"eval", "blocks", "find_repair"}
    /\ \E k \in 0..MaxProg : d8_instrs \in SeqsOfLen(Instrs, k)
    /\ d8_nop \in (IF d8_call = "blocks" THEN BOOLEAN ELSE {TRUE})
    /\ d8_pc = CASE d8_call = "eval" -> "loop"
                 [] d8_call = "blocks" -> "leaders"
                 [] OTHER -> "graph"
    /\ d8_st = eval_locals
    /\ d8_ret = << >>
    /\ d8_leaders = << >>
    /\ d8_blocks = << >>
    /\ d8_map = << >>
    /\ d8_graph = << >>
    /\ d8_repair = None
    /\ CliIdle
    /\ UtilIdle
    /\ Day13Idle
    /\ CrtIdle
    /\ RsIdle
    /\ Day19Idle
    /\ Day15Idle
    /\ Day9Idle
    /\ Day11Idle
    /\ Day14Idle

Day8Next ==
    \/ eval_loop
    \/ eval_return
    \/ eval_panic
    \/ blocks_leaders
    \/ blocks_basic_blocks
    \/ blocks_basic_block_map
    \/ blocks_basic_block_graph
    \/ find_repair_graph
    \/ find_repair_connected
    \/ find_repair_search

SpecDay8 == Day8Init /\ [][Day8Next]_vars

\* C15: for every program, eval makes at most one step per instruction and
\* returns (no panic): Ok(acc) exactly when ip is one past the last
\* instruction, Err(acc) exactly when the instruction at ip was executed
\* before, acc being the accumulator at that moment.
C15_EvalReturnsOkOrErr ==
    d8_call = "eval" =>
        /\ d8_pc # "abort"
        /\ d8_st.steps <= Len(d8_instrs)
        /\ d8_pc = "done" =>
              /\ d8_ret.kind = "Ok" <=> d8_st.ip = Len(d8_instrs)
              /\ d8_ret.kind = "Err" <=> d8_st.ip \in d8_st.visited
              /\ d8_ret.val = d8_st.acc

\* Instr::repair applied to instruction idx, a jmp or a nop
repaired(instrs, idx) ==
    [instrs EXCEPT ![idx + 1] =
        IF is_jmp(@) THEN Nop(@.arg) ELSE Jmp(@.arg)]

Repairable(instrs, idx) ==
    /\ idx \in 0..(Len(instrs) - 1)
    /\ is_jmp(at(instrs, idx)) \/ is_nop(at(instrs, idx))
    /\ eval(repaired(instrs, idx)).kind = "Ok"

\* C16: for every program that loops and that one flip of a jmp or a nop
\* makes terminate, find_repair returns Some(i) such that the program with
\* instruction i flipped terminates.
C16_FindRepairRepairs ==
    ( /\ d8_call = "find_repair"
      /\ eval(d8_instrs).kind = "Err"
      /\ \E idx \in 0..(Len(d8_instrs) - 1) : Repairable(d8_instrs, idx) ) =>
        /\ d8_pc # "abort"
        /\ d8_pc = "done" =>
              d8_repair.some /\ Repairable(d8_instrs, d8_repair.val)

\* C17: for every non-empty program the basic blocks are built and are
\* consecutive non-empty ranges that cover 0..len in ascending order, each
\* starting at a leader, and basic_block_map sends every instruction index
\* to the index of the block that contains it.
C17_BlocksPartitionTheProgram ==
    (d8_call = "blocks" /\ Len(d8_instrs) >= 1) =>
        /\ d8_pc # "abort"
        /\ d8_pc \in {"basic_block_map", "basic_block_graph", "done"} =>
              /\ d8_blocks # << >>
              /\ d8_blocks[1].start = 0
              /\ d8_blocks[Len(d8_blocks)].end = Len(d8_instrs)
              /\ \A i \in 1..Len(d8_blocks) :
                     /\ d8_blocks[i].start < d8_blocks[i].end
                     /\ d8_blocks[i].start = d8_leaders[i]
                     /\ i < Len(d8_blocks) =>
                            d8_blocks[i].end = d8_blocks[i + 1].start
        /\ d8_pc \in {"basic_block_graph", "done"} =>
              /\ Len(d8_map) = Len(d8_instrs)
              /\ \A idx \in 0..(Len(d8_instrs) - 1) :
                     LET b == d8_blocks[d8_map[idx + 1] + 1]
                     IN b.start <= idx /\ idx < b.end

\* execution passes from the last instruction of block s to the first
\* instruction of block t
Passes(instrs, blocks, s, t) ==
    LET last == at(instrs, blocks[s + 1].end - 1)
        target == blocks[s + 1].end - 1 + last.arg
    IN \/ last.op # "jmp" /\ t = s + 1
       \/ last.op = "jmp" /\ target = blocks[t + 1].start

\* C18: the basic block graph has an edge from block s to block t exactly
\* when execution can pass from the last instruction of s to the first
\* instruction of t, by falling through or by a jmp at the end of s; a jmp
\* whose target is outside the program adds no edge.
C18_EdgesAreControlFlow ==
    d8_graph # << >> =>
        /\ d8_graph.nodes = Len(d8_blocks)
        /\ d8_graph.edges \subseteq
               (0..(d8_graph.nodes - 1)) \X (0..(d8_graph.nodes - 1))
        /\ \A s, t \in 0..(d8_graph.nodes - 1) :
               <<s, t>> \in d8_graph.edges
                   <=> Passes(d8_instrs, d8_blocks, s, t)

C18_Witness ==
    /\ d8_call = "blocks"
    /\ d8_pc = "done"
    /\ \E s \in 0..(d8_graph.nodes - 2) :
           /\ <<s, s + 1>> \in d8_graph.edges
           /\ ~is_jmp(at(d8_instrs, d8_blocks[s + 1].end - 1))
    /\ \E e \in d8_graph.edges :
           is_jmp(at(d8_instrs, d8_blocks[e[1] + 1].end - 1))
    /\ \E s \in 0..(d8_graph.nodes - 1) :
           LET end_idx == d8_blocks[s + 1].end - 1 IN
           /\ is_jmp(at(d8_instrs, end_idx))
           /\ end_idx + at(d8_instrs, end_idx).arg >= Len(d8_instrs)
           /\ \A t \in 0..(d8_graph.nodes - 1) : <<s, t>> \notin d8_graph.edges

\* C20: find_repair returns None exactly when the unmodified program
\* terminates (eval returns Ok), and Some index for every program that loops.
C20_NoneIffTerminates ==
    d8_call = "find_repair" =>
        /\ eval(d8_instrs).kind = "Err" => d8_pc # "abort"
        /\ d8_pc = "done" =>
              (~d8_repair.some <=> eval(d8_instrs).kind = "Ok")

\* C21: whenever find_repair returns Some(i), instruction i is a jmp or a
\* nop, so Instr::repair applied to it in run does not abort.
C21_RepairIndexIsJmpOrNop ==
    (d8_call = "find_repair" /\ d8_pc = "done" /\ d8_repair.some) =>
        /\ d8_repair.val \in 0..(Len(d8_instrs) - 1)
        /\ \/ is_jmp(at(d8_instrs, d8_repair.val))
           \/ is_nop(at(d8_instrs, d8_repair.val))

(***************************************************************************)
(* src/day19.rs: Rule::parse and Rules::parse                              *)
(***************************************************************************)
MAX_RULES == 150

\* the variants of Rule; p and q hold the u8 operands
Rule_Or(c1, c2) == [tag |-> "Or", p |-> c1, q |-> c2]
Rule_Or2(i1, i2) == [tag |-> "Or2", p |-> <<i1>>, q |-> <<i2>>]
Rule_Concat(i1, i2) == [tag |-> "Concat", p |-> <<i1, i2>>, q |-> << >>]
Rule_Alias(i) == [tag |-> "Alias", p |-> <<i>>, q |-> << >>]
Rule_A == [tag |-> "A", p |-> << >>, q |-> << >>]
Rule_B == [tag |-> "B", p |-> << >>, q |-> << >>]
Rule_Or8(x) == [tag |-> "Or8", p |-> <<x>>, q |-> << >>]
Rule_Or11(x, y) == [tag |-> "Or11", p |-> <<x, y>>, q |-> << >>]
Rule_Empty == [tag |-> "Empty", p |-> << >>, q |-> << >>]
Rule_panic == [tag |-> "panic", p |-> << >>, q |-> << >>]

\* s starts with the pattern pat
starts_with(s, pat) ==
    Len(s) >= Len(pat) /\ SubSeq(s, 1, Len(pat)) = pat

RECURSIVE split_str(_, _)
\* str::split on a non-empty pattern
split_str(s, pat) ==
    LET hits == {i \in 1..Len(s) : starts_with(SubSeq(s, i, Len(s)), pat)} IN
    IF hits = {} THEN <<s>>
    ELSE LET i == CHOOSE h \in hits : \A g \in hits : h <= g
         IN <<SubSeq(s, 1, i - 1)>>
                \o split_str(SubSeq(s, i + Len(pat), Len(s)), pat)

\* s.parse::<u8>()
parse_u8(s) ==
    LET body == IF s # << >> /\ Head(s) = "+" THEN Tail(s) ELSE s IN
    IF /\ body # << >>
       /\ \A i \in 1..Len(body) : IsDigit(body[i])
       /\ Len(StripZeros(body)) <= 3
       /\ DecVal(StripZeros(body)) <= 255
    THEN [ok |-> TRUE, val |-> DecVal(body)]
    ELSE [ok |-> FALSE, val |-> 0]

\* day19.rs:23-29
parse_concat(s) ==
    LET parts == split_str(s, <<" ">>) IN
    IF Len(parts) = 2 /\ parse_u8(parts[1]).ok /\ parse_u8(parts[2]).ok
    THEN [ok |-> TRUE, val |-> <<parse_u8(parts[1]).val, parse_u8(parts[2]).val>>]
    ELSE [ok |-> FALSE, val |-> << >>]

\* day19.rs:31-62
Rule_parse(s) ==
    LET splits == split_str(s, <<" ", "|", " ">>) IN
    CASE Len(splits) = 1 ->
            IF parse_concat(s).ok
            THEN Rule_Concat(parse_concat(s).val[1], parse_concat(s).val[2])
            ELSE IF parse_u8(s).ok THEN Rule_Alias(parse_u8(s).val)
            ELSE IF s = <<"\"", "a", "\"">> THEN Rule_A
            ELSE IF s = <<"\"", "b", "\"">> THEN Rule_B
            ELSE Rule_panic
      [] Len(splits) = 2 ->
            IF parse_concat(splits[1]).ok /\ parse_concat(splits[2]).ok
            THEN Rule_Or(parse_concat(splits[1]).val, parse_concat(splits[2]).val)
            ELSE IF parse_u8(splits[1]).ok /\ parse_u8(splits[2]).ok
            THEN Rule_Or2(parse_u8(splits[1]).val, parse_u8(splits[2]).val)
            ELSE Rule_panic
      [] OTHER -> Rule_panic

\* day19.rs:74-76
Rules_parse_start ==
    /\ r19_pc = "start"
    /\ r19_rules' = [i \in 1..MAX_RULES |-> Rule_Empty]
    /\ r19_lines' = lines(r19_text)
    /\ r19_pc' = "lines"
    /\ UNCHANGED <<r19_defs, r19_v2, r19_text>>
    /\ UNCHANGED notDay19

\* day19.rs:79-85, the rule of the line with index idx
Rules_parse_rule(idx, rule, v2) ==
    IF v2 /\ idx = 8 THEN Rule_Or8(42)
    ELSE IF v2 /\ idx = 11 THEN Rule_Or11(42, 31)
    ELSE Rule_parse(rule)

\* day19.rs:76-88, one line: the two unwraps, Rule::parse and the index
\* into rules may panic
Rules_parse_line ==
    /\ r19_pc = "lines"
    /\ r19_lines # << >>
    /\ LET parts == split_str(Head(r19_lines), <<":", " ">>)
           idx == parse_u8(parts[1])
           rule == Rules_parse_rule(idx.val, parts[2], r19_v2)
       IN IF \/ Len(parts) # 2
             \/ ~idx.ok
             \/ rule = Rule_panic
             \/ idx.val >= MAX_RULES
          THEN r19_pc' = "abort" /\ UNCHANGED <<r19_rules, r19_lines>>
          ELSE /\ r19_rules' = [r19_rules EXCEPT ![idx.val + 1] = rule]
               /\ r19_lines' = Tail(r19_lines)
               /\ UNCHANGED r19_pc
    /\ UNCHANGED <<r19_defs, r19_v2, r19_text>>
    /\ UNCHANGED notDay19

\* day19.rs:90
Rules_parse_return ==
    /\ r19_pc = "lines"
    /\ r19_lines = << >>
    /\ r19_pc' = "done"
    /\ UNCHANGED <<r19_defs, r19_v2, r19_text, r19_lines, r19_rules>>
    /\ UNCHANGED notDay19

\* sample rule bodies, each with the Rule it stands for
RuleBodies ==
    { [text |-> <<"\"", "a", "\"">>, rule |-> Rule_A],
      [text |-> <<"\"", "b", "\"">>, rule |-> Rule_B],
      [text |-> <<"1">>, rule |-> Rule_Alias(1)],
      [text |-> <<"0", " ", "1">>, rule |-> Rule_Concat(0, 1)],
      [text |-> <<"0", " ", "1", " ", "|", " ", "1", " ", "0">>,
       rule |-> Rule_Or(<<0, 1>>, <<1, 0>>)],
      [text |-> <<"0", " ", "|", " ", "1">>, rule |-> Rule_Or2(0, 1)] }

RECURSIVE to_string(_)
\* the decimal text of a number
to_string(k) ==
    IF k < 10 THEN <<Digits[k + 1]>>
    ELSE to_string(k \div 10) \o <<Digits[(k % 10) + 1]>>

\* the text of the definitions: `idx: body`, one per line
RuleText(defs) ==
    Join([i \in 1..Len(defs) |->
              to_string(defs[i].idx) \o <<":", " ">> \o defs[i].body.text],
         <<NEWLINE>>)

\* the rules 0..k-1, one per line in any order
RuleDefs(k) ==
    {d \in SeqsOfLen([idx : 0..(k - 1), body : RuleBodies], k) :
        \A i, j \in 1..k : i # j => d[i].idx # d[j].idx}

\* Rules::parse_v1 or Rules::parse_v2 called on a rule text
Day19Init ==
    /\ \E k \in 0..MaxRules : r19_defs \in RuleDefs(k)
    /\ r19_v2 \in BOOLEAN
    /\ r19_text = RuleText(r19_defs)
    /\ r19_lines = << >>
    /\ r19_rules = << >>
    /\ r19_pc = "start"
    /\ CliIdle
    /\ UtilIdle
    /\ Day13Idle
    /\ CrtIdle
    /\ RsIdle
    /\ Day8Idle
    /\ Day15Idle
    /\ Day9Idle
    /\ Day11Idle
    /\ Day14Idle

Day19Next == Rules_parse_start \/ Rules_parse_line \/ Rules_parse_return

SpecDay19 == Day19Init /\ [][Day19Next]_vars

\* the rule that the text defines for index i
DefinedRule(defs, i) ==
    (CHOOSE d \in Range(defs) : d.idx = i).body.rule

\* C19: Rules::parse_v1 applied to a text that defines rules 0..n-1, one per
\* line in any order, returns a rule table equal to the n-element list whose
\* i-th element is the parsed form of rule i.
C19_TableIsTheRuleList ==
    ~r19_v2 =>
        /\ r19_pc # "abort"
        /\ r19_pc = "done" =>
              r19_rules = [i \in 1..Len(r19_defs) |->
                               DefinedRule(r19_defs, i - 1)]

(***************************************************************************)
(* day15: the memory game.  prev_round_spoken is the HashMap: a function   *)
(* whose domain is the set of keys, each value the pair of the round the   *)
(* number was last spoken in and, as an Option, the round before that.     *)
(***************************************************************************)

\* Game::new: collect() of (num, (round + 1, None)) into a HashMap keeps,
\* for a number listed twice, the pair inserted last
Game_new(starting_numbers) ==
    [round |-> Len(starting_numbers),
     prev_num_spoken |-> starting_numbers[Len(starting_numbers)],
     prev_round_spoken |->
        [num \in Range(starting_numbers) |->
            [prev |-> CHOOSE i \in 1..Len(starting_numbers) :
                          /\ starting_numbers[i] = num
                          /\ \A j \in (i + 1)..Len(starting_numbers) :
                                 starting_numbers[j] # num,
             prev_prev |-> None]]]

\* NonZeroU32::new
NonZeroU32_new(n) == IF n = 0 THEN None ELSE Some(n)

\* Game::speak, called with self.round already advanced
speak(game, num) ==
    LET maybe_prev_round_spoken ==
            IF num \in DOMAIN game.prev_round_spoken
                THEN NonZeroU32_new(game.prev_round_spoken[num].prev)
                ELSE None
    IN  [game |->
            [round |-> game.round,
             prev_num_spoken |-> num,
             prev_round_spoken |->
                [k \in DOMAIN game.prev_round_spoken \cup {num} |->
                    IF k = num
                        THEN [prev |-> game.round,
                              prev_prev |-> maybe_prev_round_spoken]
                        ELSE game.prev_round_spoken[k]]],
         num |-> num]

\* Game::step: the game after the step and the number returned
step(game) ==
    LET advanced == [game EXCEPT !.round = game.round + 1]
        entry == game.prev_round_spoken[game.prev_num_spoken]
    IN  IF ~entry.prev_prev.some
            THEN speak(advanced, 0)
            ELSE speak(advanced, entry.prev - entry.prev_prev.val)

\* a call of step on a game that is not inside step_until_round
Game_step ==
    /\ g15_pc = "ready"
    /\ g15_game.round < MaxRound
    /\ g15_game' = step(g15_game).game
    /\ g15_said' = Append(g15_said, step(g15_game).num)
    /\ UNCHANGED <<g15_start, g15_until, g15_ret, g15_pc>>
    /\ UNCHANGED notDay15

\* step_until_round is entered with the round to reach
step_until_round_call ==
    /\ g15_pc = "ready"
    /\ \E round \in 1..MaxRound :
          g15_until' = round
    /\ g15_ret' = None
    /\ g15_pc' = "until"
    /\ UNCHANGED <<g15_start, g15_game, g15_said>>
    /\ UNCHANGED notDay15

\* one turn of its loop: step, then return num if self.round == round
step_until_round_loop ==
    /\ g15_pc = "until"
    /\ g15_game.round < MaxRound
    /\ g15_game' = step(g15_game).game
    /\ g15_said' = Append(g15_said, step(g15_game).num)
    /\ IF g15_game'.round = g15_until
          THEN /\ g15_ret' = Some(step(g15_game).num)
               /\ g15_pc' = "ready"
          ELSE UNCHANGED <<g15_ret, g15_pc>>
    /\ UNCHANGED <<g15_start, g15_until>>
    /\ UNCHANGED notDay15

Day15Init ==
    /\ \E n \in 1..MaxStart :
          g15_start \in SeqsOfLen(0..MaxNum, n)
    /\ g15_game = Game_new(g15_start)
    /\ g15_said = g15_start
    /\ g15_until = 0
    /\ g15_ret = None
    /\ g15_pc = "ready"
    /\ CliIdle
    /\ UtilIdle
    /\ Day13Idle
    /\ CrtIdle
    /\ RsIdle
    /\ Day8Idle
    /\ Day19Idle
    /\ Day9Idle
    /\ Day11Idle
    /\ Day14Idle

Day15Next == Game_step \/ step_until_round_call \/ step_until_round_loop

SpecDay15 == Day15Init /\ [][Day15Next]_vars

\* the rounds, up to round k, in which the number spoken at round k was spoken
rounds_spoken(said, k) == {j \in 1..k : said[j] = said[k]}

\* the number the rule of the game asks for after the rounds 1..k
number_to_speak(said, k) ==
    IF Cardinality(rounds_spoken(said, k)) = 1
        THEN 0
        ELSE k - (CHOOSE j \in rounds_spoken(said, k) \ {k} :
                      \A i \in rounds_spoken(said, k) \ {k} : i <= j)

\* C22: for every non-empty list of starting numbers, each step after the
\* starting rounds advances the round by one and speaks 0 if the previously
\* spoken number had been spoken only once, otherwise the difference of the
\* last two rounds in which it was spoken; step_until_round(r) returns the
\* number spoken at round r.
C22_StepFollowsTheRule ==
    /\ g15_game.round = Len(g15_said)
    /\ \A k \in (Len(g15_start) + 1)..Len(g15_said) :
           g15_said[k] = number_to_speak(g15_said, k - 1)
    /\ g15_ret.some => g15_ret.val = g15_said[g15_until]

(***************************************************************************)
(* day9: find_invalid.  Indices are the code's, counted from 0.            *)
(***************************************************************************)

PREAMBLE_LEN == 25

\* has_two_sum: some x below sum in the set with y = sum - x in the set too
\* and x != y
has_two_sum(inputs, sum) ==
    \E x \in inputs :
        /\ ~(x >= sum)
        /\ x # sum - x
        /\ (sum - x) \in inputs

\* split_at(PREAMBLE_LEN) panics on a shorter slice; `nums` is rebound to
\* the part after the preamble
find_invalid_start ==
    /\ f9_pc = "start"
    /\ IF Len(f9_nums) < PREAMBLE_LEN
          THEN /\ f9_pc' = "abort"
               /\ UNCHANGED <<f9_preamble, f9_set>>
          ELSE /\ f9_preamble' = SubSeq(f9_nums, 1, PREAMBLE_LEN)
               /\ f9_set' = Range(SubSeq(f9_nums, 1, PREAMBLE_LEN))
               /\ f9_pc' = "loop"
    /\ UNCHANGED <<f9_nums, f9_idx, f9_ret>>
    /\ UNCHANGED notDay9

\* one turn of the for loop over the rebound nums.enumerate()
find_invalid_loop ==
    /\ f9_pc = "loop"
    /\ PREAMBLE_LEN + f9_idx < Len(f9_nums)
    /\ LET num == f9_nums[PREAMBLE_LEN + f9_idx + 1]
           front == Head(f9_preamble)
       IN  IF ~has_two_sum(f9_set, num)
              THEN /\ f9_ret' = [some |-> TRUE, idx |-> f9_idx, num |-> num]
                   /\ f9_pc' = "done"
                   /\ UNCHANGED <<f9_idx, f9_preamble, f9_set>>
              ELSE /\ f9_preamble' = Append(Tail(f9_preamble), num)
                   /\ f9_set' = (f9_set \ {front}) \cup {num}
                   /\ f9_idx' = f9_idx + 1
                   /\ UNCHANGED <<f9_ret, f9_pc>>
    /\ UNCHANGED f9_nums
    /\ UNCHANGED notDay9

\* the loop is over: None
find_invalid_none ==
    /\ f9_pc = "loop"
    /\ PREAMBLE_LEN + f9_idx = Len(f9_nums)
    /\ f9_ret' = [some |-> FALSE, idx |-> 0, num |-> 0]
    /\ f9_pc' = "done"
    /\ UNCHANGED <<f9_nums, f9_idx, f9_preamble, f9_set>>
    /\ UNCHANGED notDay9

\* the preambles tried: the numbers 1..25 in order, and the same with the
\* first number replaced by a second 25
Preambles ==
    {[i \in 1..PREAMBLE_LEN |-> IF i = 1 THEN first ELSE i] :
        first \in {1, PREAMBLE_LEN}}

\* the numbers that follow the preamble are drawn from these
Followers ==
    {PREAMBLE_LEN + 1, 2 * PREAMBLE_LEN - 1, 2 * PREAMBLE_LEN,
     4 * PREAMBLE_LEN}

Day9Init ==
    /\ \E preamble \in Preambles, n \in 0..MaxFollow :
          \E followers \in SeqsOfLen(Followers, n) :
              f9_nums = preamble \o followers
    /\ f9_idx = 0
    /\ f9_preamble = << >>
    /\ f9_set = {}
    /\ f9_ret = << >>
    /\ f9_pc = "start"
    /\ CliIdle
    /\ UtilIdle
    /\ Day13Idle
    /\ CrtIdle
    /\ RsIdle
    /\ Day8Idle
    /\ Day19Idle
    /\ Day15Idle
    /\ Day11Idle
    /\ Day14Idle

Day9Next == find_invalid_start \/ find_invalid_loop \/ find_invalid_none

SpecDay9 == Day9Init /\ [][Day9Next]_vars

\* nums[i] (i counted from 0) is the sum of two different numbers among the
\* PREAMBLE_LEN numbers immediately before it
IsPairSum(nums, i) ==
    \E j, k \in (i - PREAMBLE_LEN)..(i - 1) :
        /\ nums[j + 1] # nums[k + 1]
        /\ nums[j + 1] + nums[k + 1] = nums[i + 1]

\* i is the position of the first number after the preamble that is not
FirstInvalid(nums, i) ==
    /\ i \in PREAMBLE_LEN..(Len(nums) - 1)
    /\ ~IsPairSum(nums, i)
    /\ \A h \in PREAMBLE_LEN..(i - 1) : IsPairSum(nums, h)

\* C23: the index returned by find_invalid is the position in the full input
\* list of the first number after the 25-number preamble that is not the sum
\* of two different numbers among the 25 numbers immediately before it, so
\* nums[..index] holds every number that precedes the invalid one.
C23_IndexIsPositionInInput ==
    (f9_pc = "done" /\ f9_ret.some) =>
        /\ FirstInvalid(f9_nums, f9_ret.idx)
        /\ f9_ret.num = f9_nums[f9_ret.idx + 1]
        /\ SubSeq(f9_nums, 1, f9_ret.idx) =
               SubSeq(f9_nums, 1,
                      CHOOSE i \in 0..Len(f9_nums) : FirstInvalid(f9_nums, i))

(***************************************************************************)
(* day11: Layout.  An Array2 is its shape and its elements, indexed by     *)
(* row and column from 0 as in the code.                                   *)
(***************************************************************************)

Array2(n, m, elem(_, _)) ==
    [nrows |-> n, ncols |-> m,
     at |-> [p \in (0..(n - 1)) \X (0..(m - 1)) |-> elem(p[1], p[2])]]

\* Array2::zeros
zeros(n, m) == LET zero(i, j) == 0 IN Array2(n, m, zero)

\* the flat_map of from_str: the elements of all lines, one after another
RECURSIVE elem_iter(_)
elem_iter(text_lines) ==
    IF text_lines = << >> THEN << >>
    ELSE Head(text_lines) \o elem_iter(Tail(text_lines))

\* Layout::from_str: n counts the lines, m is the length of the last line;
\* into_shape((n, m)).unwrap() panics unless there are n * m elements
from_str(text_lines) ==
    LET n == Len(text_lines)
        m == IF n = 0 THEN 0 ELSE Len(text_lines[n])
        chars == elem_iter(text_lines)
        mask(i, j) == IF chars[i * m + j + 1] = "L" THEN 1 ELSE 0
    IN  IF \E k \in 1..Len(chars) : chars[k] \notin {"L", "."}
            THEN [panic |-> TRUE]
        ELSE IF Len(chars) # n * m
            THEN [panic |-> TRUE]
        ELSE [panic |-> FALSE,
              occupied |-> zeros(n + 2, m + 2),
              floor_mask |-> Array2(n, m, mask)]

\* the offsets of the eight slices that step adds into neigh
slices == {<<di, dj>> : di \in {0, 1, 2}, dj \in {0, 1, 2}} \ {<<1, 1>>}

RECURSIVE sum_of(_, _)
sum_of(f, S) ==
    IF S = {} THEN 0
    ELSE LET x == CHOOSE y \in S : TRUE IN f[x] + sum_of(f, S \ {x})

\* neigh[i, j] after the eight `neigh += slice` statements
neigh(occupied, i, j) ==
    sum_of([d \in slices |-> occupied.at[<<i + d[1], j + d[2]>>]], slices)

\* the closure of zip_mut_with
next_state_crowded_above_four(o, n) ==
    IF (o = 0 /\ n = 0) \/ (o = 1 /\ n < 5) THEN 1 ELSE 0

next_state(o, n) ==
    IF (o = 0 /\ n = 0) \/ (o = 1 /\ n < 4) THEN 1 ELSE 0

\* Layout::step: the new `occupied`
step_occupied(layout) ==
    LET n == layout.floor_mask.nrows
        m == layout.floor_mask.ncols
        inner(i, j) ==
            next_state(layout.occupied.at[<<i + 1, j + 1>>],
                       neigh(layout.occupied, i, j))
                * layout.floor_mask.at[<<i, j>>]
        cell(r, c) ==
            IF r \in 1..n /\ c \in 1..m
                THEN inner(r - 1, c - 1)
                ELSE layout.occupied.at[<<r, c>>]
    IN  Array2(n + 2, m + 2, cell)

Layout_from_str ==
    /\ l11_pc = "start"
    /\ IF from_str(l11_lines).panic
          THEN /\ l11_pc' = "abort"
               /\ UNCHANGED l11_layout
          ELSE /\ l11_layout' = [occupied |-> from_str(l11_lines).occupied,
                                 floor_mask |->
                                     from_str(l11_lines).floor_mask]
               /\ l11_pc' = "ready"
    /\ UNCHANGED <<l11_lines, l11_prev>>
    /\ UNCHANGED notDay11

Layout_step ==
    /\ l11_pc = "ready"
    /\ l11_prev' = l11_layout.occupied
    /\ l11_layout' = [l11_layout EXCEPT !.occupied = step_occupied(l11_layout)]
    /\ UNCHANGED <<l11_lines, l11_pc>>
    /\ UNCHANGED notDay11

\* the texts tried: n lines of m characters each, and the same with the last
\* character of the last line missing
Day11Init ==
    /\ \E n \in 0..MaxRows, m \in 0..MaxCols, ragged \in BOOLEAN :
          \E grid \in [1..n -> [1..m -> {"L", "."}]] :
              l11_lines =
                  [i \in 1..n |->
                      IF ragged /\ i = n /\ m > 0
                          THEN SubSeq(grid[i], 1, m - 1)
                          ELSE grid[i]]
    /\ l11_layout = << >>
    /\ l11_prev = << >>
    /\ l11_pc = "start"
    /\ CliIdle
    /\ UtilIdle
    /\ Day13Idle
    /\ CrtIdle
    /\ RsIdle
    /\ Day8Idle
    /\ Day19Idle
    /\ Day15Idle
    /\ Day9Idle
    /\ Day14Idle

Day11Next == Layout_from_str \/ Layout_step

SpecDay11 == Day11Init /\ [][Day11Next]_vars

\* the seats of a layout: the cells of `occupied` that lie inside the border
\* and are not floor
IsSeat(layout, r, c) ==
    /\ r \in 1..layout.floor_mask.nrows
    /\ c \in 1..layout.floor_mask.ncols
    /\ layout.floor_mask.at[<<r - 1, c - 1>>] = 1

\* how many seats adjacent to cell (r, c) are occupied in `occupied`
OccupiedAdjacent(layout, occupied, r, c) ==
    Cardinality({p \in ((r - 1)..(r + 1)) \X ((c - 1)..(c + 1)) :
                    /\ p # <<r, c>>
                    /\ IsSeat(layout, p[1], p[2])
                    /\ occupied.at[p] = 1})

\* C24: after any number of Layout::step calls every floor cell and every
\* cell of the zero border is unoccupied, and each step changes every seat by
\* the rule, all at once from the previous layout: empty with no occupied
\* adjacent seat becomes occupied, occupied with four or more occupied
\* adjacent seats becomes empty, every other seat keeps its state.
C24_StepFollowsTheSeatRule ==
    l11_pc = "ready" =>
        /\ \A p \in DOMAIN l11_layout.occupied.at :
               ~IsSeat(l11_layout, p[1], p[2]) =>
                   l11_layout.occupied.at[p] = 0
        /\ l11_prev # << >> =>
               \A p \in DOMAIN l11_layout.occupied.at :
                   IsSeat(l11_layout, p[1], p[2]) =>
                       LET before == l11_prev.at[p]
                           around == OccupiedAdjacent(l11_layout, l11_prev,
                                                      p[1], p[2])
                       IN  l11_layout.occupied.at[p] =
                               IF before = 0 /\ around = 0 THEN 1
                               ELSE IF before = 1 /\ around >= 4 THEN 0
                               ELSE before

\* a step has emptied a seat that had four occupied adjacent seats, filled
\* an empty one and left a seat with fewer as it was
C24_Witness ==
    /\ l11_pc = "ready"
    /\ l11_prev # << >>
    /\ \E p \in DOMAIN l11_prev.at :
           /\ IsSeat(l11_layout, p[1], p[2])
           /\ l11_prev.at[p] = 1
           /\ OccupiedAdjacent(l11_layout, l11_prev, p[1], p[2]) = 4
           /\ l11_layout.occupied.at[p] = 0
    /\ \E p \in DOMAIN l11_prev.at :
           /\ IsSeat(l11_layout, p[1], p[2])
           /\ l11_prev.at[p] = 1
           /\ l11_layout.occupied.at[p] = 1
    /\ \E p \in DOMAIN l11_prev.at :
           /\ ~IsSeat(l11_layout, p[1], p[2])
           /\ p[1] \in 1..l11_layout.floor_mask.nrows
           /\ p[2] \in 1..l11_layout.floor_mask.ncols

(***************************************************************************)
(* day14: part 2.  A u64 is the set of the positions of its set bits, bit  *)
(* 0 the lowest: | is \cup, & !m is \ m.  Indices of mask_permutations are *)
(* numbers.  The functions are compiled for x86_64 with BMI2 enabled, and  *)
(* the model is of a processor that has the pdep instruction.              *)
(***************************************************************************)

BITS == 36
U64_BITS == 64

\* (1 << BITS) - 1
VALUE_MASK == 0..(BITS - 1)

\* !x on a u64
not_u64(x) == (0..(U64_BITS - 1)) \ x

SetMask(one_mask, zero_mask) ==
    [kind |-> "SetMask", a |-> one_mask, b |-> zero_mask]
SetMem(addr, value) == [kind |-> "SetMem", a |-> addr, b |-> value]

\* 1 << n on a u64, for n below 64
RECURSIVE shl_one(_)
shl_one(n) == IF n = 0 THEN 1 ELSE 2 * shl_one(n - 1)

\* the position of the i-th lowest set bit of mask, i counted from 0
nth_set_bit(mask, i) ==
    CHOOSE b \in mask : Cardinality({c \in mask : c < b}) = i

\* _pdep_u64(index, mask): bit i of index goes to the i-th set bit of mask
pdep_u64_low_bits(index, mask) ==
    {i \in 0..(Cardinality(mask) - 1) : (index \div shl_one(i)) % 2 = 1}

pdep_u64(index, mask) ==
    {nth_set_bit(mask, i) : i \in
        {j \in 0..(Cardinality(mask) - 1) : (index \div shl_one(j)) % 2 = 1}}

\* mask_permutations: the values of the iterator, in its order
mask_permutations(mask) ==
    LET num_permutations == shl_one(Cardinality(mask))
    IN  [index \in 1..num_permutations |-> pdep_u64(index - 1, mask)]

Memory_new == [mem |-> << >>, one_mask |-> {}, zero_mask |-> {},
               floating_mask |-> {}]

\* HashMap::insert of the same value under every key of a set
insert_all(mem, keys, value) ==
    [k \in DOMAIN mem \cup keys |-> IF k \in keys THEN value ELSE mem[k]]

\* Memory::apply_action_v2
apply_action_v2(memory, action) ==
    IF action.kind = "SetMask"
        THEN [memory EXCEPT
                 !.one_mask = action.a,
                 !.zero_mask = action.b,
                 !.floating_mask =
                     not_u64(action.a \cup action.b) \cap VALUE_MASK]
        ELSE LET addr == (action.a \cup memory.one_mask)
                             \ memory.floating_mask
                 perms == mask_permutations(memory.floating_mask)
             IN  [memory EXCEPT
                     !.mem = insert_all(memory.mem,
                                        {addr \cup perms[i] :
                                            i \in 1..Len(perms)},
                                        action.b)]

\* one turn of part2's fold
part2_fold ==
    /\ m14_i < Len(m14_actions)
    /\ m14_i' = m14_i + 1
    /\ m14_memory' = apply_action_v2(m14_memory, m14_actions[m14_i + 1])
    /\ m14_perms' =
          IF m14_actions[m14_i + 1].kind = "SetMem"
              THEN mask_permutations(m14_memory.floating_mask)
              ELSE m14_perms
    /\ UNCHANGED m14_actions
    /\ UNCHANGED notDay14

\* the bits that masks and addresses are built from: the low ones and the
\* highest of the 36; an address may also have the bit above them
MaskBits == (0..MaxLowBit) \cup {BITS - 1}
AddrBits == MaskBits \cup {BITS}

\* what parse_mask_bits makes of 36 characters that are `0` outside MaskBits
SetMasks ==
    {SetMask({b \in MaskBits : chars[b] = "1"},
             (VALUE_MASK \ MaskBits) \cup {b \in MaskBits : chars[b] = "0"}) :
        chars \in [MaskBits -> {"0", "1", "X"}]}

SetMems == {SetMem(addr, value) : addr \in SUBSET AddrBits, value \in {1, 2}}

\* a SetMem on the new Memory, or a SetMask and then a SetMem
Day14Init ==
    /\ \/ \E mem \in SetMems : m14_actions = <<mem>>
       \/ \E mask \in SetMasks, mem \in SetMems : m14_actions = <<mask, mem>>
    /\ m14_i = 0
    /\ m14_memory = Memory_new
    /\ m14_perms = << >>
    /\ CliIdle
    /\ UtilIdle
    /\ Day13Idle
    /\ CrtIdle
    /\ RsIdle
    /\ Day8Idle
    /\ Day19Idle
    /\ Day15Idle
    /\ Day9Idle
    /\ Day11Idle

Day14Next == part2_fold

SpecDay14 == Day14Init /\ [][Day14Next]_vars

\* the last action applied, once there is one
LastAction == m14_actions[m14_i]

\* C25: for every 36-bit mask, mask_permutations yields exactly 2^k values
\* (k the number of set bits of the mask), each with set bits only where the
\* mask has them, all distinct, so every subset of the mask's bits appears
\* exactly once; part 2 writes the value to exactly the 2^k addresses that
\* agree with (address OR one-mask) on all non-floating bits.
C25_PermutationsAreTheSubsets ==
    (m14_i > 0 /\ LastAction.kind = "SetMem") =>
        LET floating == m14_memory.floating_mask
            target == LastAction.a \cup m14_memory.one_mask
            written == DOMAIN m14_memory.mem
        IN  /\ floating \subseteq VALUE_MASK
            /\ Len(m14_perms) = 2 ^ Cardinality(floating)
            /\ \A i \in 1..Len(m14_perms) : m14_perms[i] \subseteq floating
            /\ \A i, j \in 1..Len(m14_perms) :
                   i # j => m14_perms[i] # m14_perms[j]
            /\ \A sub \in SUBSET floating :
                   Cardinality({i \in 1..Len(m14_perms) :
                                   m14_perms[i] = sub}) = 1
            /\ Cardinality(written) = 2 ^ Cardinality(floating)
            /\ \A a \in written :
                   /\ a \ floating = target \ floating
                   /\ m14_memory.mem[a] = LastAction.b

\* a SetMem after a SetMask with two or more floating bits, bit 35 among
\* them, a one-mask bit, and an address that has floating bits and bit 36
C25_Witness ==
    /\ m14_i = 2
    /\ LastAction.kind = "SetMem"
    /\ Cardinality(m14_memory.floating_mask) >= 2
    /\ (BITS - 1) \in m14_memory.floating_mask
    /\ m14_memory.one_mask # {}
    /\ BITS \in LastAction.a
    /\ LastAction.a \cap m14_memory.floating_mask # {}
    /\ ~(m14_memory.one_mask \subseteq LastAction.a)

====
